---- MODULE Spec2Model ----
(***************************************************************************)
(* Message relay and long-poll broker of the secure messaging backend.     *)
(*                                                                         *)
(* State: the shared store (users, messages, message_deliveries), and per  *)
(* server process the in-memory waitingClients registry, the armed hold    *)
(* timers and the request handler the process is currently running.        *)
(* A Node process runs one handler at a time; with clustering enabled      *)
(* several processes share the store and interleave between store calls.   *)
(***************************************************************************)
EXTENDS Integers, Sequences, FiniteSets, TLC

\* ---------------------------------------------------------------- bounds
MaxUsers == 2       \* user ids 1..MaxUsers can exist
MaxMsgs == 2        \* message rows the store may hold (one process)
ClusterMsgs == 1    \* message rows the store may hold (clustered)
MaxKeys == 2        \* entries of a submitted keys[] list
MaxPolls == 2       \* response objects of held polls alive at once
LiveMsgs == 1       \* messages sent in the runs checked for progress
ApiMsgs == 1        \* messages sent in the runs that follow the responses
MaxHashing == 2     \* registrations waiting for their password hash at once
MaxLoops == 3       \* times the polling hook starts its poll loop
MaxRequests == 4    \* poll requests a polling hook issues
MaxBatches == 3     \* lists the chat page hands to decryption

\* ------------------------------------------------------ program constants
POLL_TIMEOUT_MS == 30000
maxEncryptedLength == 20000
defaultPageSize == 50
maxPageSize == 100
usernameMinLength == 3
usernameMaxLength == 30
passwordMinLength == 6
POLL_RETRY_DELAY == 1000

\* ------------------------------------------------------------------ state
VARIABLES
    users,           \* store: users table, users[id] = username
    messages,        \* store: messages table, in id order
    deliveries,      \* store: message_deliveries table, in insertion order
    workers,         \* the server processes that are running
    waitingClients,  \* per process: userId -> {res, timeout} (0 = no entry)
    timers,          \* per process: the armed hold timers
    cur,             \* per process: the handler being run
    resp,            \* the response objects of held polls
    handed,          \* history: message objects written to a user's poll
    pollReturns,     \* history: times getMessagesForUser returned (m, u)
    submitted,       \* history: what the sender of message m submitted
    reply,           \* the request just answered and its response
    hashing,         \* registrations waiting for their password hash
    mount,           \* useLongPolling: "no", "yes" (mounted) or "gone"
    enabled,         \* useLongPolling: the enabled argument of the last render
    isActive,        \* useLongPolling: isActive.current
    hasConnectedOnce,    \* useLongPolling: hasConnectedOnce.current
    connectionStatus,    \* useLongPolling: the connectionStatus state
    abortControllerRef,  \* useLongPolling: the request whose controller
                         \* abortControllerRef.current is (0: null)
    loops,           \* useLongPolling: the calls of poll() and where each is
    polls,           \* the poll requests issued, in order
    onMessagesCalls, \* history: the calls of the message handler
    sealed,          \* crypto: what encryptMessageForRecipients was given and
                     \* what it returned
    opened,          \* crypto: what decryptMessage was given and its outcome
    localStorage,    \* the token, user and private-key slots of the browser
    userState,       \* AuthProvider: the user state (NoUser: null)
    tab,             \* the page in the tab: "closed", "loaded", "reloading"
    thrown,          \* the error the last API call rejected with (0: none)
    loading,         \* useMessages: the loading state
    loadError,       \* useMessages: the error state ("": null)
    rendered,        \* useMessages: the messages state, the rendered list
    initPc,          \* useMessages: where init() is
    batches,         \* the lists handed to decryption, in order of arrival
    formData,        \* RegisterForm: the formData state, the fields as typed
    fieldErrors,     \* RegisterForm: the errors shown under the fields
    posted,          \* the last POST /register body and the verdict of the
                     \* server's checks on it
    sending,         \* useMessages: the sending state
    sendPc           \* useMessages: where sendMessage() is

\* the store, the processes and their histories
server == <<users, messages, deliveries, workers, waitingClients, timers, cur,
            resp, handed, pollReturns, submitted>>
\* what the runs that follow single requests and their responses record
io == <<reply, hashing>>
\* the polling hook of one browser tab
poller == <<mount, enabled, isActive, hasConnectedOnce, connectionStatus,
            abortControllerRef, loops, polls, onMessagesCalls>>
\* the browser's cryptography module
crypt == <<sealed, opened>>
\* the credential store and the session of the tab
session == <<localStorage, userState, tab, thrown>>
\* the message list of the chat page
chat == <<loading, loadError, rendered, initPc, batches>>
\* the registration form
form == <<formData, fieldErrors, posted>>
\* the composer of the chat page
composer == <<sending, sendPc>>
\* the browser side
browser == <<poller, crypt, session, chat, form, composer>>
vars == <<users, messages, deliveries, workers, waitingClients, timers, cur,
          resp, handed, pollReturns, submitted, reply, hashing, mount,
          enabled, isActive, hasConnectedOnce, connectionStatus,
          abortControllerRef, loops, polls, onMessagesCalls, sealed, opened,
          localStorage, userState, tab, thrown, loading, loadError,
          rendered, initPc, batches, formData, fieldErrors, posted,
          sending, sendPc>>

UserIds == 1 .. MaxUsers
WorkerIds == {1, 2}
ResIds == 1 .. MaxPolls
Usernames == <<"alice", "bob", "charlie">>

Min(a, b) == IF a < b THEN a ELSE b
Max(a, b) == IF a > b THEN a ELSE b

\* ============================================================ data layer
\* create-message(sender, ciphertext, iv) -> {id, senderId, createdAt}
DbCreateMessage(msgs, senderId, encryptedContent, iv) ==
    Append(msgs, [id |-> Len(msgs) + 1, sender_id |-> senderId,
                  encrypted_content |-> encryptedContent,
                  encryption_iv |-> iv])

\* uniqueness constraint on (message_id, user_id)
DbHasDelivery(dels, messageId, userId) ==
    \E i \in 1 .. Len(dels) :
        dels[i].message_id = messageId /\ dels[i].user_id = userId

\* create-delivery-with-key(message id, user id, encrypted key); the insert
\* of a second row for the same (message, user) is rejected by the store
DbCreateDeliveryWithKey(dels, messageId, userId, encryptedKey) ==
    IF DbHasDelivery(dels, messageId, userId)
    THEN [ok |-> FALSE, rows |-> dels]
    ELSE [ok |-> TRUE,
          rows |-> Append(dels, [message_id |-> messageId, user_id |-> userId,
                                 encrypted_key |-> encryptedKey,
                                 delivered |-> FALSE])]

\* mark-delivered(message id, user id)
DbMarkDelivered(dels, messageId, userId) ==
    [i \in 1 .. Len(dels) |->
        IF dels[i].message_id = messageId /\ dels[i].user_id = userId
        THEN [dels[i] EXCEPT !.delivered = TRUE]
        ELSE dels[i]]

\* the joined row: message + sender username + this user's encrypted key
DbJoin(msgs, usrs, d) ==
    LET m == msgs[d.message_id] IN
    [id |-> m.id, sender_id |-> m.sender_id,
     sender_username |-> usrs[m.sender_id],
     encrypted_content |-> m.encrypted_content,
     encryption_iv |-> m.encryption_iv,
     encrypted_key |-> d.encrypted_key]

\* get-undelivered-for-user: only rows with delivered = false
DbGetUndeliveredForUserE2E(msgs, dels, usrs, userId) ==
    LET mine == SelectSeq(dels, LAMBDA d : d.user_id = userId /\ ~d.delivered)
    IN  [i \in 1 .. Len(mine) |-> DbJoin(msgs, usrs, mine[i])]

\* get-message-history-for-user(user id, page, page size): newest first
DbGetMessageHistoryForUser(msgs, dels, usrs, userId, page, pageSize) ==
    LET mine == SelectSeq(dels, LAMBDA d : d.user_id = userId)
        total == Len(mine)
        newest == [i \in 1 .. total |-> mine[total + 1 - i]]
        offset == (page - 1) * pageSize
        last == Min(total, offset + pageSize)
    IN  [messages |-> [i \in 1 .. Max(0, last - offset) |->
                          DbJoin(msgs, usrs, newest[offset + i])],
         total |-> total]

\* ======================================================== message service
\* a message object that also has a content field
Shape_WithContent(msg) ==
    [id |-> msg.id, senderId |-> msg.sender_id,
     senderUsername |-> msg.sender_username,
     content |-> msg.encrypted_content,
     encryptedContent |-> msg.encrypted_content,
     iv |-> msg.encryption_iv, encryptedKey |-> msg.encrypted_key]

\* the message object the service hands to a client
Shape(msg) ==
    [id |-> msg.id, senderId |-> msg.sender_id,
     senderUsername |-> msg.sender_username,
     encryptedContent |-> msg.encrypted_content,
     iv |-> msg.encryption_iv, encryptedKey |-> msg.encrypted_key]

\* getMessagesForUser without its markDelivered loop
MarkEach_None(dels, rows, i, userId) == dels

RECURSIVE MarkEach(_, _, _, _)
MarkEach(dels, rows, i, userId) ==
    IF i > Len(rows) THEN dels
    ELSE MarkEach(DbMarkDelivered(dels, rows[i].id, userId), rows, i + 1, userId)

\* getMessageHistory marking the rows of the user delivered
GetMessageHistory_Marks(msgs, dels, usrs, userId, page, pageSize) ==
    [messages |-> <<>>, total |-> 0, page |-> page, pageSize |-> pageSize,
     deliveries |-> [i \in 1 .. Len(dels) |->
                       IF dels[i].user_id = userId
                       THEN [dels[i] EXCEPT !.delivered = TRUE] ELSE dels[i]]]

\* getMessageHistory(userId, page, pageSize)
GetMessageHistory(msgs, dels, usrs, userId, page, pageSize) ==
    LET h == DbGetMessageHistoryForUser(msgs, dels, usrs, userId, page, pageSize)
    IN  [messages |-> [i \in 1 .. Len(h.messages) |-> Shape(h.messages[i])],
         total |-> h.total, page |-> page, pageSize |-> pageSize,
         deliveries |-> dels]

\* ============================================================ long polling
NoClient == [res |-> 0, timeout |-> 0]
FreeRes == [state |-> "free", userId |-> 0, worker |-> 0, writes |-> 0,
            body |-> <<>>, by |-> "none"]

\* res.json(body) on a held response: the first call answers it; a call on
\* a response that was already answered throws (headers already sent), and
\* so does a call on a response that cannot be written ("broken").
\* by records the caller: "poll", "broadcast", "superseded" or "timeout".
ResJson(rs, r, body, by) ==
    IF rs[r].state = "held" /\ rs[r].writes = 0
    THEN [ok |-> TRUE,
          resp |-> [rs EXCEPT ![r].state = "answered", ![r].writes = 1,
                              ![r].body = body, ![r].by = by]]
    ELSE [ok |-> FALSE,
          resp |-> [rs EXCEPT ![r].writes = Min(2, rs[r].writes + 1),
                              ![r].by = IF rs[r].state = "broken"
                                        THEN by ELSE rs[r].by]]

\* clearTimeout(handle)
ClearTimeout(tm, handle) == {t \in tm : t.id # handle}

\* setTimeout(callback, POLL_TIMEOUT_MS): the callback closes over userId, res
SetTimeout(tm, userId, r) ==
    tm \cup {[id |-> r, userId |-> userId, res |-> r,
              delay |-> POLL_TIMEOUT_MS]}

\* registerPollingClient without waitingClients.set
RegisterPollingClient_NoSet(wc, tm, rs, userId, r) ==
    [waitingClients |-> wc, timers |-> SetTimeout(tm, userId, r), resp |-> rs]

\* registerPollingClient without clearTimeout(existing.timeout)
RegisterPollingClient_NoClear(wc, tm, rs, userId, r) ==
    [waitingClients |-> [wc EXCEPT ![userId] = [res |-> r, timeout |-> r]],
     timers |-> SetTimeout(tm, userId, r),
     resp |-> IF wc[userId] # NoClient
              THEN ResJson(rs, wc[userId].res, <<>>, "superseded").resp ELSE rs]

\* registerPollingClient(userId, res) on one process: wc its registry,
\* tm its timers, rs the response objects
RegisterPollingClient(wc, tm, rs, userId, r) ==
    LET existing == wc[userId]
        tm1 == IF existing # NoClient
               THEN ClearTimeout(tm, existing.timeout) ELSE tm
        rs1 == IF existing # NoClient
               THEN ResJson(rs, existing.res, <<>>, "superseded").resp ELSE rs
    IN  [waitingClients |-> [wc EXCEPT ![userId] = [res |-> r, timeout |-> r]],
         timers |-> SetTimeout(tm1, userId, r),
         resp |-> rs1]

\* the timer callback without waitingClients.delete
PollTimeout_KeepEntry(wc, tm, rs, t) ==
    [waitingClients |-> wc, timers |-> tm \ {t},
     resp |-> ResJson(rs, t.res, <<>>, "timeout").resp]

\* the hold timer's callback
PollTimeout(wc, tm, rs, t) ==
    [waitingClients |-> [wc EXCEPT ![t.userId] = NoClient],
     timers |-> tm \ {t},
     resp |-> ResJson(rs, t.res, <<>>, "timeout").resp]

\* a 'close' handler that removes the user's entry whichever response it holds
OnClose_AnyEntry(wc, tm, userId, r) ==
    IF wc[userId] # NoClient
    THEN [waitingClients |-> [wc EXCEPT ![userId] = NoClient],
          timers |-> ClearTimeout(tm, wc[userId].timeout)]
    ELSE [waitingClients |-> wc, timers |-> tm]

\* the 'close' handler registered on res
OnClose(wc, tm, userId, r) ==
    LET client == wc[userId] IN
    IF client # NoClient /\ client.res = r
    THEN [waitingClients |-> [wc EXCEPT ![userId] = NoClient],
          timers |-> ClearTimeout(tm, client.timeout)]
    ELSE [waitingClients |-> wc, timers |-> tm]

\* removePollingClient that leaves the timer armed
RemovePollingClient_KeepTimer(wc, tm, userId) ==
    [waitingClients |-> [wc EXCEPT ![userId] = NoClient], timers |-> tm]

\* removePollingClient(userId)
RemovePollingClient(wc, tm, userId) ==
    LET client == wc[userId] IN
    IF client # NoClient
    THEN [waitingClients |-> [wc EXCEPT ![userId] = NoClient],
          timers |-> ClearTimeout(tm, client.timeout)]
    ELSE [waitingClients |-> wc, timers |-> tm]

\* keyMap.get(userId): the last entry of keys for userId, 0 when there is none
KeyMapGet(keys, userId) ==
    LET idx == {i \in 1 .. Len(keys) : keys[i].userId = userId} IN
    IF idx = {} THEN 0
    ELSE keys[CHOOSE i \in idx : \A j \in idx : j <= i].encryptedKey

\* a broadcast message carrying the sender's wrapped key
BroadcastMessage_SenderKey(messageData, keys, userId) ==
    [id |-> messageData.id, senderId |-> messageData.senderId,
     senderUsername |-> messageData.senderUsername,
     encryptedContent |-> messageData.encryptedContent,
     iv |-> messageData.iv,
     encryptedKey |-> KeyMapGet(keys, messageData.senderId)]

\* the message object a broadcast writes for userId
BroadcastMessage(messageData, keys, userId) ==
    [id |-> messageData.id, senderId |-> messageData.senderId,
     senderUsername |-> messageData.senderUsername,
     encryptedContent |-> messageData.encryptedContent,
     iv |-> messageData.iv, encryptedKey |-> KeyMapGet(keys, userId)]

\* a broadcast that also writes to the sender's own waiting poll
BroadcastTargets_Sender(wc, messageData, keys) ==
    {u \in DOMAIN wc : wc[u] # NoClient /\ KeyMapGet(keys, u) # 0}

\* the waiting users a broadcast writes to: not the sender, with a key.
\* The loop body touches only its own user's entry, timer, response and
\* row, so the Map's iteration order is not observable.
BroadcastTargets(wc, messageData, keys) ==
    {u \in DOMAIN wc : /\ wc[u] # NoClient
                       /\ u # messageData.senderId
                       /\ KeyMapGet(keys, u) # 0}

\* a broadcast that marks the row of every user in keys delivered, waiting
\* or not, and writes to nobody
BroadcastToClientsE2E_MarkAll(wc, tm, rs, dels, messageData, keys) ==
    [waitingClients |-> wc, timers |-> tm, resp |-> rs,
     deliveries |-> [i \in 1 .. Len(dels) |->
                       IF /\ dels[i].message_id = messageData.id
                          /\ KeyMapGet(keys, dels[i].user_id) # 0
                       THEN [dels[i] EXCEPT !.delivered = TRUE]
                       ELSE dels[i]],
     served |-> {}]

\* a broadcast that marks the row delivered although the write failed
BroadcastToClientsE2E_MarkFailed(wc, tm, rs, dels, messageData, keys) ==
    LET targets == BroadcastTargets(wc, messageData, keys)
        resOf == {wc[u].res : u \in targets}
        userOf(r) == CHOOSE u \in targets : wc[u].res = r
    IN  [waitingClients |-> [u \in DOMAIN wc |->
                                IF u \in targets THEN NoClient ELSE wc[u]],
         timers |-> {t \in tm : \A u \in targets : t.id # wc[u].timeout},
         resp |-> [r \in DOMAIN rs |->
                     IF r \in resOf
                     THEN ResJson(rs, r, <<BroadcastMessage(messageData, keys,
                                                            userOf(r))>>,
                                  "broadcast").resp[r]
                     ELSE rs[r]],
         deliveries |-> [i \in 1 .. Len(dels) |->
                           IF /\ dels[i].message_id = messageData.id
                              /\ dels[i].user_id \in targets
                           THEN [dels[i] EXCEPT !.delivered = TRUE]
                           ELSE dels[i]],
         served |-> {u \in targets :
                       ResJson(rs, wc[u].res, <<>>, "broadcast").ok}]

\* broadcastToClientsE2E(messageData, keys)
BroadcastToClientsE2E(wc, tm, rs, dels, messageData, keys) ==
    LET targets == BroadcastTargets(wc, messageData, keys)
        served == {u \in targets : ResJson(rs, wc[u].res, <<>>, "broadcast").ok}
        resOf == {wc[u].res : u \in targets}
        userOf(r) == CHOOSE u \in targets : wc[u].res = r
    IN  [waitingClients |-> [u \in DOMAIN wc |->
                                IF u \in targets THEN NoClient ELSE wc[u]],
         timers |-> {t \in tm : \A u \in targets : t.id # wc[u].timeout},
         resp |-> [r \in DOMAIN rs |->
                     IF r \in resOf
                     THEN ResJson(rs, r, <<BroadcastMessage(messageData, keys,
                                                            userOf(r))>>,
                                  "broadcast").resp[r]
                     ELSE rs[r]],
         deliveries |-> [i \in 1 .. Len(dels) |->
                           IF /\ dels[i].message_id = messageData.id
                              /\ dels[i].user_id \in served
                           THEN [dels[i] EXCEPT !.delivered = TRUE]
                           ELSE dels[i]],
         served |-> served]

\* ================================================================ requests
NoToken == [kind |-> "none", userId |-> 0, username |-> ""]
BadToken == [kind |-> "invalid", userId |-> 0, username |-> ""]
\* the tokens issued so far: one per stored user, {userId, username}
ValidTokens(usrs) ==
    {[kind |-> "valid", userId |-> u, username |-> usrs[u]] :
        u \in 1 .. Len(usrs)}

\* tokens of stored users that jwt.verify rejects because they expired
RejectedTokens(usrs) ==
    {[kind |-> "expired", userId |-> u, username |-> usrs[u]] :
        u \in 1 .. Len(usrs)}
Tokens(usrs) ==
    {NoToken, BadToken} \cup RejectedTokens(usrs) \cup ValidTokens(usrs)

\* an authenticateToken that lets an expired token through
AuthenticateToken_AllowExpired(token) ==
    IF token.kind = "none" THEN 401
    ELSE IF token.kind \notin {"valid", "expired"} THEN 403
    ELSE 200

\* authenticateToken: 401 without a token, 403 with a bad one, else next()
AuthenticateToken(token) ==
    IF token.kind = "none" THEN 401
    ELSE IF token.kind # "valid" THEN 403
    ELSE 200

\* a send body: which fields are present, the ciphertext length, the
\* keys[] entries (userId 0: no userId; hasKey FALSE: no encryptedKey), and
\* whether the client also put the plaintext in a content field
KeyLists ==
    UNION {[1 .. n -> [userId : UserIds, hasKey : {TRUE}]] : n \in 1 .. MaxKeys}
GoodBody(keys) ==
    [hasContent |-> TRUE, len |-> maxEncryptedLength, hasIv |-> TRUE,
     keysKind |-> "array", keys |-> keys, plain |-> FALSE]
BadBodies ==
    LET k == <<[userId |-> 1, hasKey |-> TRUE]>>
        g == GoodBody(k)
    IN  {[g EXCEPT !.hasContent = FALSE], [g EXCEPT !.hasIv = FALSE],
         [g EXCEPT !.keysKind = "absent"], [g EXCEPT !.keysKind = "object"],
         [g EXCEPT !.keys = <<>>],
         [g EXCEPT !.keys = <<[userId |-> 0, hasKey |-> TRUE]>>],
         [g EXCEPT !.keys = <<[userId |-> 1, hasKey |-> FALSE]>>],
         [g EXCEPT !.len = maxEncryptedLength + 1]}
Bodies == {GoodBody(k) : k \in KeyLists} \cup BadBodies

\* the clients name stored users in keys[] (userId 0: the field is missing)
KnownRecipients(body, usrs) ==
    \A i \in 1 .. Len(body.keys) : body.keys[i].userId \in 0 .. Len(usrs)

\* the checks of POST /send without the length check
SendValidation_NoLength(body) ==
    IF \/ ~body.hasContent \/ ~body.hasIv \/ body.keysKind # "array"
       \/ Len(body.keys) = 0
    THEN 400
    ELSE IF \E i \in 1 .. Len(body.keys) :
               body.keys[i].userId = 0 \/ ~body.keys[i].hasKey
    THEN 400
    ELSE 200

\* the checks of POST /send before createMessage: 400 or pass (200)
SendValidation(body) ==
    IF \/ ~body.hasContent \/ ~body.hasIv \/ body.keysKind # "array"
       \/ Len(body.keys) = 0
    THEN 400
    ELSE IF \E i \in 1 .. Len(body.keys) :
               body.keys[i].userId = 0 \/ ~body.keys[i].hasKey
    THEN 400
    ELSE IF body.len > maxEncryptedLength THEN 400
    ELSE 200

\* what the client submitted as the n-th accepted message: the ciphertext,
\* the IV and one wrapped key per entry, every one a distinct value
Ciphertext(n, body) == 100 * body.len + n
Iv(n) == 50 + n
WrappedKeys(n, body) ==
    [i \in 1 .. Len(body.keys) |->
        [userId |-> body.keys[i].userId, encryptedKey |-> 10 * n + i]]

\* page / pageSize of GET /history: parseInt(q) || default, then clamped
\* (q = 0 stands for an absent or non-numeric query value)
\* a query parameter as it reaches the handler: absent, a string that
\* does not start with a number, or a string that starts with the integer
\* n (alone, or followed by other characters as in "7px" and "7.5")
NoQuery == [kind |-> "absent", n |-> 0]
TextQuery == [kind |-> "text", n |-> 0]
NumQuery(n) == [kind |-> "int", n |-> n]
PrefixQuery(n) == [kind |-> "prefixed", n |-> n]

\* parseInt(value): the leading integer, or NaN
ParseInt(q) ==
    IF q.kind \in {"int", "prefixed"}
    THEN [nan |-> FALSE, n |-> q.n]
    ELSE [nan |-> TRUE, n |-> 0]
\* x || fallback: NaN and 0 are falsy
OrElse(x, fallback) == IF x.nan \/ x.n = 0 THEN fallback ELSE x.n

\* a page size that is not capped at maxPageSize
PageSizeOf_NoCap(q) == Max(1, OrElse(ParseInt(q), defaultPageSize))

PageOf(q) == Max(1, OrElse(ParseInt(q), 1))
PageSizeOf(q) ==
    Min(maxPageSize, Max(1, OrElse(ParseInt(q), defaultPageSize)))
PageQueries == {NoQuery, NumQuery(2)}
PageSizeQueries == {NoQuery, NumQuery(1)}

Idle == [kind |-> "idle", userId |-> 0, username |-> "", keys |-> <<>>,
         encryptedContent |-> 0, iv |-> 0, messageId |-> 0, phase |-> 0,
         idx |-> 0, rows |-> <<>>, res |-> 0]

FreeResIds == {r \in ResIds : resp[r].state = "free"}
NewRes == CHOOSE r \in FreeResIds : \A q \in FreeResIds : r <= q

HandedBy(path, userId, msgs) ==
    {[userId |-> userId, path |-> path, msg |-> msgs[i]] : i \in 1 .. Len(msgs)}

\* no request is being answered; no registration is waiting for its hash
NoReply == [route |-> "none", status |-> 0]
NoHashing == <<>>

\* ================================================================== Init
\* no browser tab has mounted its hooks yet
BrowserInit ==
    /\ mount = "no"
    /\ enabled = FALSE
    /\ isActive = FALSE
    /\ hasConnectedOnce = FALSE
    /\ connectionStatus = "disconnected"
    /\ abortControllerRef = 0
    /\ loops = <<>>
    /\ polls = <<>>
    /\ onMessagesCalls = <<>>
    /\ sealed = [plaintext |-> "", recipients |-> <<>>]
    /\ opened = [by |-> 0]
    /\ localStorage = [token |-> <<>>, user |-> <<>>, privateKey |-> <<>>]
    /\ userState = [userId |-> 0, username |-> ""]
    /\ tab = "closed"
    /\ thrown = 0
    /\ loading = TRUE
    /\ loadError = ""
    /\ rendered = <<>>
    /\ initPc = "idle"
    /\ batches = <<>>
    /\ formData = [username |-> <<>>, password |-> <<>>,
                   confirmPassword |-> <<>>]
    /\ fieldErrors = [username |-> "", password |-> "",
                      confirmPassword |-> ""]
    /\ posted = [sent |-> FALSE]
    /\ sending = FALSE
    /\ sendPc = "idle"

RegisteredAtStart == <<"alice">>
Names == {Usernames[i] : i \in 1 .. MaxUsers}
Routes == {"send", "poll", "history", "public-keys"}

Init ==
    /\ users = RegisteredAtStart
    /\ messages = <<>>
    /\ deliveries = <<>>
    /\ workers \in {{1}, {1, 2}}
    /\ waitingClients = [w \in WorkerIds |-> [u \in UserIds |-> NoClient]]
    /\ timers = [w \in WorkerIds |-> {}]
    /\ cur = [w \in WorkerIds |-> Idle]
    /\ resp = [r \in ResIds |-> FreeRes]
    /\ handed = {}
    /\ pollReturns = [p \in (1 .. MaxMsgs) \X UserIds |-> 0]
    /\ submitted = <<>>
    /\ reply = NoReply
    /\ hashing = NoHashing
    /\ BrowserInit

Ready(w) == w \in workers /\ cur[w] = Idle
MsgLimit == IF workers = {1} THEN MaxMsgs ELSE ClusterMsgs

\* ------------------------------------------------------- auth middleware
\* a protected route called without a valid token: the handler is not run
Unauthorized(w, route, token) ==
    /\ Ready(w)
    /\ route \in Routes
    /\ AuthenticateToken(token) \in {401, 403}
    /\ UNCHANGED server

\* ------------------------------------------------- POST /api/auth/register
RegisterUser(w, username) ==
    /\ Ready(w)
    /\ IF \E i \in 1 .. Len(users) : users[i] = username
       THEN UNCHANGED users
       ELSE /\ Len(users) < MaxUsers
            /\ users' = Append(users, username)
    /\ UNCHANGED <<messages, deliveries, workers, waitingClients, timers,
                   cur, resp, handed, pollReturns, submitted>>

\* ----------------------------------------------- GET /api/users/public-keys
PublicKeys(w, token) ==
    /\ Ready(w)
    /\ AuthenticateToken(token) = 200
    /\ UNCHANGED server

\* ------------------------------------------------- POST /api/messages/send
\* createMessage without the sender's markDelivered
CreateMessageOrder_NoMark == <<"deliveries", "broadcast">>
\* createMessage broadcasting before it stores the delivery rows
CreateMessageOrder_BroadcastFirst == <<"broadcast", "deliveries", "mark">>

\* the statements of createMessage after db.createMessage, in order
CreateMessageOrder == <<"deliveries", "mark", "broadcast">>

\* the route handler up to createMessage's first store call
SendStart(w, token, body) ==
    /\ Ready(w)
    /\ AuthenticateToken(token) = 200
    /\ KnownRecipients(body, users)
    /\ IF SendValidation(body) = 400
       THEN UNCHANGED <<messages, cur, submitted>>
       ELSE /\ Len(messages) < MsgLimit
            /\ LET n == Len(messages) + 1 IN
               /\ messages' = DbCreateMessage(messages, token.userId,
                                              Ciphertext(n, body), Iv(n))
               /\ cur' = [cur EXCEPT ![w] =
                            [Idle EXCEPT !.kind = "send",
                                         !.userId = token.userId,
                                         !.username = token.username,
                                         !.keys = WrappedKeys(n, body),
                                         !.encryptedContent = Ciphertext(n, body),
                                         !.iv = Iv(n),
                                         !.messageId = n, !.phase = 1,
                                         !.idx = 1]]
               /\ submitted' = Append(submitted,
                                 [senderId |-> token.userId,
                                  encryptedContent |-> Ciphertext(n, body),
                                  iv |-> Iv(n),
                                  keys |-> WrappedKeys(n, body),
                                  registered |-> Len(users),
                                  status |-> 0])
    /\ UNCHANGED <<users, deliveries, workers, waitingClients, timers, resp,
                   handed, pollReturns>>

InSend(w, stmt) ==
    /\ w \in workers
    /\ cur[w].kind = "send"
    /\ CreateMessageOrder[cur[w].phase] = stmt

\* after a statement of createMessage: the next one, or return and 201
SendAdvance(w, finished) ==
    IF ~finished
    THEN /\ UNCHANGED submitted
         /\ cur' = [cur EXCEPT ![w].idx = cur[w].idx + 1]
    ELSE IF cur[w].phase < Len(CreateMessageOrder)
    THEN /\ UNCHANGED submitted
         /\ cur' = [cur EXCEPT ![w].phase = cur[w].phase + 1]
    ELSE /\ cur' = [cur EXCEPT ![w] = Idle]
         /\ submitted' = [submitted EXCEPT ![cur[w].messageId].status = 201]

\* one turn of the loop over keys: db.createDeliveryWithKey; a rejected
\* insert throws out of createMessage and the route answers 500
SendDelivery(w) ==
    /\ InSend(w, "deliveries")
    /\ LET h == cur[w]
           k == h.keys[h.idx]
           ins == DbCreateDeliveryWithKey(deliveries, h.messageId, k.userId,
                                          k.encryptedKey)
       IN  IF ins.ok
           THEN /\ deliveries' = ins.rows
                /\ SendAdvance(w, h.idx = Len(h.keys))
           ELSE /\ cur' = [cur EXCEPT ![w] = Idle]
                /\ submitted' = [submitted EXCEPT ![h.messageId].status = 500]
                /\ UNCHANGED deliveries
    /\ UNCHANGED <<users, messages, workers, waitingClients, timers, resp,
                   handed, pollReturns>>

\* db.markDelivered(message.id, senderId)
SendMark(w) ==
    /\ InSend(w, "mark")
    /\ deliveries' = DbMarkDelivered(deliveries, cur[w].messageId, cur[w].userId)
    /\ SendAdvance(w, TRUE)
    /\ UNCHANGED <<users, messages, workers, waitingClients, timers, resp,
                   handed, pollReturns>>

\* broadcastToClientsE2E(broadcastData, keys)
SendBroadcast(w) ==
    /\ InSend(w, "broadcast")
    /\ LET h == cur[w]
           messageData == [id |-> h.messageId, senderId |-> h.userId,
                           senderUsername |-> h.username,
                           encryptedContent |-> h.encryptedContent,
                           iv |-> h.iv]
           b == BroadcastToClientsE2E(waitingClients[w], timers[w], resp,
                                      deliveries, messageData, h.keys)
       IN  /\ waitingClients' = [waitingClients EXCEPT ![w] = b.waitingClients]
           /\ timers' = [timers EXCEPT ![w] = b.timers]
           /\ resp' = b.resp
           /\ deliveries' = b.deliveries
           /\ handed' = handed \cup
                 {[userId |-> u, path |-> "broadcast",
                   msg |-> BroadcastMessage(messageData, h.keys, u)] :
                      u \in b.served}
    /\ SendAdvance(w, TRUE)
    /\ UNCHANGED <<users, messages, workers, pollReturns>>

\* -------------------------------------------------- GET /api/messages/poll
\* the shaped result of getMessagesForUser for the rows it fetched
PollResult(rows) == [i \in 1 .. Len(rows) |-> Shape(rows[i])]

\* the handler up to getMessagesForUser's fetch of the undelivered rows
PollStart(w, token) ==
    /\ Ready(w)
    /\ AuthenticateToken(token) = 200
    /\ FreeResIds # {}
    /\ resp' = [resp EXCEPT ![NewRes] =
                  [state |-> "held", userId |-> token.userId, worker |-> w,
                   writes |-> 0, body |-> <<>>, by |-> "none"]]
    /\ cur' = [cur EXCEPT ![w] =
                 [Idle EXCEPT !.kind = "poll", !.userId = token.userId,
                              !.username = token.username, !.res = NewRes,
                              !.rows = DbGetUndeliveredForUserE2E(
                                          messages, deliveries, users,
                                          token.userId)]]
    /\ UNCHANGED <<users, messages, deliveries, workers, waitingClients,
                   timers, handed, pollReturns, submitted>>

\* the rest of the handler: getMessagesForUser marks each fetched row and
\* returns; pending messages are answered at once, else the poll is held
PollFinish(w) ==
    /\ w \in workers
    /\ cur[w].kind = "poll"
    /\ LET h == cur[w]
           pending == PollResult(h.rows)
           ids == {h.rows[i].id : i \in 1 .. Len(h.rows)}
       IN  /\ deliveries' = MarkEach(deliveries, h.rows, 1, h.userId)
           /\ pollReturns' = [p \in DOMAIN pollReturns |->
                                IF p[1] \in ids /\ p[2] = h.userId
                                THEN Min(2, pollReturns[p] + 1)
                                ELSE pollReturns[p]]
           /\ IF Len(pending) > 0
              THEN /\ resp' = [ResJson(resp, h.res, pending, "poll").resp
                                 EXCEPT ![h.res] = FreeRes]
                   /\ handed' = IF ResJson(resp, h.res, pending, "poll").ok
                                THEN handed \cup HandedBy("poll", h.userId, pending)
                                ELSE handed
                   /\ UNCHANGED <<waitingClients, timers>>
              ELSE LET reg == RegisterPollingClient(waitingClients[w],
                                  timers[w], resp, h.userId, h.res)
                   IN  /\ waitingClients' =
                             [waitingClients EXCEPT ![w] = reg.waitingClients]
                       /\ timers' = [timers EXCEPT ![w] = reg.timers]
                       /\ resp' = reg.resp
                       /\ UNCHANGED handed
    /\ cur' = [cur EXCEPT ![w] = Idle]
    /\ UNCHANGED <<users, messages, workers, submitted>>

\* ----------------------------------------------- GET /api/messages/history
HistoryFetch(w, token, pageQ, pageSizeQ) ==
    /\ Ready(w)
    /\ AuthenticateToken(token) = 200
    /\ deliveries' = GetMessageHistory(messages, deliveries, users,
                           token.userId, PageOf(pageQ),
                           PageSizeOf(pageSizeQ)).deliveries
    /\ UNCHANGED <<users, messages, workers, waitingClients, timers, cur,
                   resp, handed, pollReturns, submitted>>

\* ------------------------------------------------------- timers and sockets
\* a hold timer expires
TimerFire(w, t) ==
    /\ Ready(w)
    /\ t \in timers[w]
    /\ LET o == PollTimeout(waitingClients[w], timers[w], resp, t) IN
       /\ waitingClients' = [waitingClients EXCEPT ![w] = o.waitingClients]
       /\ timers' = [timers EXCEPT ![w] = o.timers]
       /\ resp' = o.resp
    /\ UNCHANGED <<users, messages, deliveries, workers, cur, handed,
                   pollReturns, submitted>>

\* 'close' is emitted on res: its handler runs and the object is dropped
CloseConn(r) ==
    /\ Ready(resp[r].worker)
    /\ LET w == resp[r].worker
           o == OnClose(waitingClients[w], timers[w], resp[r].userId, r)
       IN  /\ waitingClients' = [waitingClients EXCEPT ![w] = o.waitingClients]
           /\ timers' = [timers EXCEPT ![w] = o.timers]
    /\ resp' = [resp EXCEPT ![r] = FreeRes]
    /\ UNCHANGED <<users, messages, deliveries, workers, cur, handed,
                   pollReturns, submitted>>

\* the client of a held poll goes away before the poll is answered
ClientDisconnect(r) == resp[r].state = "held" /\ CloseConn(r)

\* the answer of a held poll has been sent and its connection ends
ResponseFinished(r) == resp[r].state = "answered" /\ CloseConn(r)

\* ================================================================== Next
\* a step of the server in a run that does not follow the responses
Quiet(A) == A /\ UNCHANGED io /\ UNCHANGED browser
\* a step of the server in a run that follows the responses
Backend(A) == A /\ UNCHANGED browser

Next ==
    \/ \E w \in WorkerIds, route \in Routes, token \in {NoToken, BadToken} :
          Quiet(Unauthorized(w, route, token))
    \/ \E w \in WorkerIds, username \in Names : Quiet(RegisterUser(w, username))
    \/ \E w \in WorkerIds, token \in ValidTokens(users) : Quiet(PublicKeys(w, token))
    \/ \E w \in WorkerIds, token \in ValidTokens(users), body \in Bodies :
          Quiet(SendStart(w, token, body))
    \/ \E w \in WorkerIds : Quiet(SendDelivery(w))
    \/ \E w \in WorkerIds : Quiet(SendMark(w))
    \/ \E w \in WorkerIds : Quiet(SendBroadcast(w))
    \/ \E w \in WorkerIds, token \in ValidTokens(users) : Quiet(PollStart(w, token))
    \/ \E w \in WorkerIds : Quiet(PollFinish(w))
    \/ \E w \in WorkerIds, token \in ValidTokens(users),
          pageQ \in PageQueries, pageSizeQ \in PageSizeQueries :
          Quiet(HistoryFetch(w, token, pageQ, pageSizeQ))
    \/ \E w \in WorkerIds : \E t \in timers[w] : Quiet(TimerFire(w, t))
    \/ \E r \in ResIds : Quiet(ClientDisconnect(r))
    \/ \E r \in ResIds : Quiet(ResponseFinished(r))

Spec == Init /\ [][Next]_vars

\* the server run as one process (clustering disabled, the default)
SingleSpec == Init /\ workers = {1} /\ [][Next]_vars

\* ------------------------------------------------------------ scheduling
\* the poll requests of user u
PollOf(u) ==
    \E w \in WorkerIds, token \in ValidTokens(users) :
        token.userId = u /\ PollStart(w, token)

\* the handler process w is running takes its next step
Handler(w) ==
    SendDelivery(w) \/ SendMark(w) \/ SendBroadcast(w) \/ PollFinish(w)

\* the hold timer of response r expires
TimerOf(r) ==
    \E w \in WorkerIds : \E t \in timers[w] : t.res = r /\ TimerFire(w, t)

\* A handler that was started runs to its end; between two handlers the
\* event loop of a process runs every timer that has expired and its
\* 'close' callbacks; every user goes on polling. A client is never obliged to
\* send, to register or to drop a connection.
Fairness ==
    /\ \A w \in WorkerIds : WF_vars(Quiet(Handler(w)))
    /\ \A r \in ResIds : /\ SF_vars(Quiet(TimerOf(r)))
                         /\ SF_vars(Quiet(ResponseFinished(r)))
    /\ \A u \in UserIds : SF_vars(Quiet(PollOf(u)))

\* the requests and events that change the broker's state: registrations,
\* valid sends, polls, timers and connection ends
LiveNext ==
    \/ \E w \in WorkerIds, username \in Names : Quiet(RegisterUser(w, username))
    \/ \E w \in WorkerIds, token \in ValidTokens(users), keys \in KeyLists :
          Quiet(Len(messages) < LiveMsgs /\ SendStart(w, token, GoodBody(keys)))
    \/ \E w \in WorkerIds : Quiet(SendDelivery(w))
    \/ \E w \in WorkerIds : Quiet(SendMark(w))
    \/ \E w \in WorkerIds : Quiet(SendBroadcast(w))
    \/ \E w \in WorkerIds, token \in ValidTokens(users) : Quiet(PollStart(w, token))
    \/ \E w \in WorkerIds : Quiet(PollFinish(w))
    \/ \E w \in WorkerIds : \E t \in timers[w] : Quiet(TimerFire(w, t))
    \/ \E r \in ResIds : Quiet(ClientDisconnect(r))
    \/ \E r \in ResIds : Quiet(ResponseFinished(r))

LiveSpec == Init /\ [][LiveNext]_vars /\ Fairness

\* ------------------------------------------------ requests and responses
\* One process, one client request at a time: reply is the request being
\* handled with the response written for it (status 0: none yet), and is
\* cleared when the response has gone out or the poll is held. A handler
\* runs to its response without yielding, so timers, closes and other
\* requests come before the request or after its response.
Reply(route, token, req, status, user, data) ==
    [route |-> route, token |-> token, req |-> req, status |-> status,
     user |-> user, data |-> data]
NoUser == [userId |-> 0, username |-> ""]
\* req.user = decoded
UserOf(token) == [userId |-> token.userId, username |-> token.username]
Asking == reply = NoReply

\* the value createMessage returns
CreateMessageResult(h) ==
    [id |-> h.messageId, senderId |-> h.userId, senderUsername |-> h.username]
\* what GET /history writes: the result of getMessageHistory
HistoryResponse(h) ==
    [messages |-> h.messages, total |-> h.total, page |-> h.page,
     pageSize |-> h.pageSize]

\* the query values tried for page and pageSize
QueryValues ==
    {NoQuery, TextQuery, NumQuery(0 - 3), NumQuery(0), NumQuery(1), NumQuery(2),
     NumQuery(maxPageSize), NumQuery(maxPageSize + 1), PrefixQuery(7)}
\* the queries tried: every value for one parameter with the other absent,
\* and both given
QueryPairs ==
    {<<q, NoQuery>> : q \in QueryValues} \cup
    {<<NoQuery, q>> : q \in QueryValues} \cup {<<NumQuery(2), NumQuery(1)>>}
\* a send body that also carries the plaintext in a content field
PlainBodies ==
    {[GoodBody(k) EXCEPT !.plain = TRUE] :
        k \in {<<[userId |-> 1, hasKey |-> TRUE], [userId |-> 2, hasKey |-> TRUE]>>}}
ApiBodies == Bodies \cup PlainBodies

ApiInit == Init /\ workers = {1}

ApiDenied(w, route, token) ==
    /\ Asking
    /\ Unauthorized(w, route, token)
    /\ reply' = Reply(route, token, <<>>, AuthenticateToken(token), NoUser, <<>>)
    /\ UNCHANGED hashing

ApiPublicKeys(w, token) ==
    /\ Asking
    /\ PublicKeys(w, token)
    /\ reply' = Reply("public-keys", token, <<>>, 200, UserOf(token), users)
    /\ UNCHANGED hashing

ApiSend(w, token, body) ==
    /\ Asking
    /\ SendValidation(body) = 400 \/ Len(messages) < ApiMsgs
    /\ SendStart(w, token, body)
    /\ reply' = Reply("send", token, body,
                      IF SendValidation(body) = 400 THEN 400 ELSE 0,
                      UserOf(token), <<>>)
    /\ UNCHANGED hashing

\* a statement A of createMessage; after the last one the route answers
ApiSendStep(w, A) ==
    /\ A
    /\ reply' = IF cur'[w] # Idle THEN reply
                ELSE LET status == submitted'[cur[w].messageId].status IN
                     [reply EXCEPT !.status = status,
                                   !.data = IF status = 201
                                            THEN CreateMessageResult(cur[w])
                                            ELSE <<>>]
    /\ UNCHANGED hashing

\* the clients hold one poll at a time
ApiPollStart(w, token) ==
    /\ Asking
    /\ FreeResIds = ResIds
    /\ PollStart(w, token)
    /\ reply' = Reply("poll", token, <<>>, 0, UserOf(token), <<>>)
    /\ UNCHANGED hashing

ApiPollFinish(w) ==
    /\ PollFinish(w)
    /\ reply' = IF Len(cur[w].rows) > 0
                THEN [reply EXCEPT !.status = 200,
                                   !.data = PollResult(cur[w].rows)]
                ELSE NoReply
    /\ UNCHANGED hashing

ApiHistory(w, token, pageQ, pageSizeQ) ==
    /\ Asking
    /\ HistoryFetch(w, token, pageQ, pageSizeQ)
    /\ reply' = Reply("history", token,
                      [page |-> pageQ, pageSize |-> pageSizeQ], 200,
                      UserOf(token),
                      HistoryResponse(GetMessageHistory(messages, deliveries,
                          users, token.userId, PageOf(pageQ),
                          PageSizeOf(pageSizeQ))))
    /\ UNCHANGED hashing

\* the response has gone out
ReplySent ==
    /\ reply # NoReply
    /\ reply.status # 0
    /\ reply' = NoReply
    /\ UNCHANGED <<server, hashing>>

ApiNext ==
    \/ \E w \in WorkerIds, route \in Routes, token \in Tokens(users) :
          Backend(ApiDenied(w, route, token))
    \/ \E w \in WorkerIds, username \in Names :
          Quiet(Asking /\ RegisterUser(w, username))
    \/ \E w \in WorkerIds, token \in Tokens(users) : Backend(ApiPublicKeys(w, token))
    \/ \E w \in WorkerIds, token \in Tokens(users), body \in ApiBodies :
          Backend(ApiSend(w, token, body))
    \/ \E w \in WorkerIds : Backend(ApiSendStep(w, SendDelivery(w)))
    \/ \E w \in WorkerIds : Backend(ApiSendStep(w, SendMark(w)))
    \/ \E w \in WorkerIds : Backend(ApiSendStep(w, SendBroadcast(w)))
    \/ \E w \in WorkerIds, token \in Tokens(users) : Backend(ApiPollStart(w, token))
    \/ \E w \in WorkerIds : Backend(ApiPollFinish(w))
    \/ \E w \in WorkerIds, token \in Tokens(users), q \in QueryPairs :
          Backend(ApiHistory(w, token, q[1], q[2]))
    \/ Backend(ReplySent)
    \/ \E w \in WorkerIds : \E t \in timers[w] :
          Quiet(Asking /\ TimerFire(w, t))
    \/ \E r \in ResIds : Quiet(Asking /\ ClientDisconnect(r))
    \/ \E r \in ResIds : Quiet(Asking /\ ResponseFinished(r))

ApiSpec == ApiInit /\ [][ApiNext]_vars

\* ------------------------------------------------ registration and login
\* find-user-by-username
DbFindUserByUsername(usrs, username) ==
    {i \in 1 .. Len(usrs) : usrs[i] = username}
\* create-user: users.username is UNIQUE, a second row with it is rejected
DbCreateUser(usrs, username) ==
    IF DbFindUserByUsername(usrs, username) # {}
    THEN [ok |-> FALSE, users |-> usrs, id |-> 0]
    ELSE [ok |-> TRUE, users |-> Append(usrs, username), id |-> Len(usrs) + 1]
\* the error-handling middleware: a generic failure response
ErrorHandler == [status |-> 500, error |-> "generic failure"]

\* the request bodies tried: "" stands for a missing field
Name30 == "abcdefghijklmnopqrstuvwxyz0123"
Name31 == "abcdefghijklmnopqrstuvwxyz01234"
GoodPassword == "123456"
RegBodies ==
    [username : {"", "ab", "alice", "bob", Name30, Name31},
     password : {"", "12345", GoodPassword},
     publicKey : BOOLEAN, encryptedPrivateKey : BOOLEAN,
     encryptedPrivateKeyIv : BOOLEAN]
LoginBodies ==
    [username : {"", "alice", "bob", "nobody"},
     password : {"", GoodPassword, "wrong-password"}]

\* bcrypt: every stored user registered with GoodPassword, the only
\* password of the bodies tried that passes the length check
BcryptHash(password) == <<"bcrypt", password>>
BcryptCompare(password, hash) == hash = BcryptHash(password)
PasswordHashOf(usrs, id) == BcryptHash(GoodPassword)

\* the checks of POST /register that do not test the key material
RegisterValidation_NoKeys(body) ==
    IF body.username = "" \/ body.password = ""
    THEN [status |-> 400, error |-> "username.required"]
    ELSE IF \/ Len(body.username) < usernameMinLength
            \/ Len(body.username) > usernameMaxLength
    THEN [status |-> 400, error |-> "username.invalidLength"]
    ELSE IF Len(body.password) < passwordMinLength
    THEN [status |-> 400, error |-> "password.tooShort"]
    ELSE [status |-> 200, error |-> ""]

\* the checks of POST /register before registerUser: 400 or pass (200)
RegisterValidation(body) ==
    IF body.username = "" \/ body.password = ""
    THEN [status |-> 400, error |-> "username.required"]
    ELSE IF \/ Len(body.username) < usernameMinLength
            \/ Len(body.username) > usernameMaxLength
    THEN [status |-> 400, error |-> "username.invalidLength"]
    ELSE IF Len(body.password) < passwordMinLength
    THEN [status |-> 400, error |-> "password.tooShort"]
    ELSE IF \/ ~body.publicKey \/ ~body.encryptedPrivateKey
            \/ ~body.encryptedPrivateKeyIv
    THEN [status |-> 400, error |-> "keys required"]
    ELSE [status |-> 200, error |-> ""]

\* what POST /register and POST /login answer with
AuthData(error, token) == [error |-> error, token |-> token]
SignedToken(id, username) ==
    [kind |-> "valid", userId |-> id, username |-> username]

\* POST /register up to registerUser's await of bcrypt.hash
RegisterStart(body) ==
    /\ Asking
    /\ LET v == RegisterValidation(body) IN
       IF v.status = 400
       THEN /\ reply' = Reply("register", NoToken, body, 400, NoUser,
                              AuthData(v.error, NoToken))
            /\ UNCHANGED hashing
       ELSE IF DbFindUserByUsername(users, body.username) # {}
       THEN /\ reply' = Reply("register", NoToken, body, 409, NoUser,
                              AuthData("Username already exists", NoToken))
            /\ UNCHANGED hashing
       ELSE /\ Len(hashing) < MaxHashing
            /\ hashing' = Append(hashing, body)
            /\ UNCHANGED reply
    /\ UNCHANGED server

\* the hash of the i-th waiting registration is ready: db.createUser, the
\* key updates, jwt.sign and the 201 response; an error thrown by
\* createUser has no status and goes to the error handler
RegisterFinish(i) ==
    /\ Asking
    /\ i \in 1 .. Len(hashing)
    /\ LET body == hashing[i]
           c == DbCreateUser(users, body.username)
       IN  /\ c.ok => Len(users) < MaxUsers
           /\ users' = c.users
           /\ reply' =
                 IF c.ok
                 THEN Reply("register", NoToken, body, 201,
                            [userId |-> c.id, username |-> body.username],
                            AuthData("", SignedToken(c.id, body.username)))
                 ELSE Reply("register", NoToken, body, ErrorHandler.status,
                            NoUser, AuthData(ErrorHandler.error, NoToken))
    /\ hashing' = [j \in 1 .. Len(hashing) - 1 |->
                     IF j < i THEN hashing[j] ELSE hashing[j + 1]]
    /\ UNCHANGED <<messages, deliveries, workers, waitingClients, timers,
                   cur, resp, handed, pollReturns, submitted>>

\* a loginUser that tells an unknown user from a wrong password
LoginUser_NotFound(usrs, username, password) ==
    LET found == DbFindUserByUsername(usrs, username) IN
    IF found = {}
    THEN [status |-> 404, error |-> "User not found", token |-> NoToken,
          user |-> NoUser]
    ELSE LET id == CHOOSE i \in found : TRUE IN
         IF ~BcryptCompare(password, PasswordHashOf(usrs, id))
         THEN [status |-> 401, error |-> "Invalid username or password",
               token |-> NoToken, user |-> NoUser]
         ELSE [status |-> 200, error |-> "",
               token |-> SignedToken(id, username),
               user |-> [userId |-> id, username |-> username]]

\* loginUser(username, password), with the status the route gives it
LoginUser(usrs, username, password) ==
    LET found == DbFindUserByUsername(usrs, username) IN
    IF found = {}
    THEN [status |-> 401, error |-> "Invalid username or password",
          token |-> NoToken, user |-> NoUser]
    ELSE LET id == CHOOSE i \in found : TRUE IN
         IF ~BcryptCompare(password, PasswordHashOf(usrs, id))
         THEN [status |-> 401, error |-> "Invalid username or password",
               token |-> NoToken, user |-> NoUser]
         ELSE [status |-> 200, error |-> "",
               token |-> SignedToken(id, username),
               user |-> [userId |-> id, username |-> username]]

\* POST /login
Login(body) ==
    /\ Asking
    /\ LET o == IF body.username = "" \/ body.password = ""
                THEN [status |-> 400, error |-> "username and password required",
                      token |-> NoToken, user |-> NoUser]
                ELSE LoginUser(users, body.username, body.password)
       IN  reply' = Reply("login", NoToken, body, o.status, o.user,
                          AuthData(o.error, o.token))
    /\ UNCHANGED <<server, hashing>>

AuthInit == Init /\ workers = {1}

AuthNext ==
    \/ \E body \in RegBodies : Backend(RegisterStart(body))
    \/ \E i \in 1 .. MaxHashing : Backend(RegisterFinish(i))
    \/ \E body \in LoginBodies : Backend(Login(body))
    \/ Backend(ReplySent)

AuthSpec == AuthInit /\ [][AuthNext]_vars

\* ------------------------------------------------------ failing writes
\* The three users of the test fixture are registered and one process
\* serves them. The connection of a registered waiting poll may become
\* unwritable before its 'close' is emitted: res.json on it throws.
FaultUserIds == 1 .. Len(Usernames)
FaultKeyLists == [1 .. MaxKeys -> [userId : FaultUserIds, hasKey : {TRUE}]]

FaultInit ==
    /\ users = Usernames
    /\ messages = <<>>
    /\ deliveries = <<>>
    /\ workers = {1}
    /\ waitingClients = [w \in WorkerIds |-> [u \in FaultUserIds |-> NoClient]]
    /\ timers = [w \in WorkerIds |-> {}]
    /\ cur = [w \in WorkerIds |-> Idle]
    /\ resp = [r \in ResIds |-> FreeRes]
    /\ handed = {}
    /\ pollReturns = [p \in (1 .. MaxMsgs) \X FaultUserIds |-> 0]
    /\ submitted = <<>>
    /\ reply = NoReply
    /\ hashing = NoHashing
    /\ BrowserInit

\* the connection of a registered waiting poll becomes unwritable
ConnBreak(r) ==
    /\ resp[r].state = "held"
    /\ \E u \in DOMAIN waitingClients[resp[r].worker] :
          waitingClients[resp[r].worker][u].res = r
    /\ resp' = [resp EXCEPT ![r].state = "broken"]
    /\ UNCHANGED <<users, messages, deliveries, workers, waitingClients,
                   timers, cur, handed, pollReturns, submitted>>

\* 'close' is emitted on an unwritable connection
BrokenClosed(r) == resp[r].state = "broken" /\ CloseConn(r)

FaultNext ==
    \/ \E w \in WorkerIds, token \in ValidTokens(users), keys \in FaultKeyLists :
          Quiet(Len(messages) < LiveMsgs /\ SendStart(w, token, GoodBody(keys)))
    \/ \E w \in WorkerIds : Quiet(SendDelivery(w))
    \/ \E w \in WorkerIds : Quiet(SendMark(w))
    \/ \E w \in WorkerIds : Quiet(SendBroadcast(w))
    \/ \E w \in WorkerIds, token \in ValidTokens(users) : Quiet(PollStart(w, token))
    \/ \E w \in WorkerIds : Quiet(PollFinish(w))
    \/ \E w \in WorkerIds : \E t \in timers[w] : Quiet(TimerFire(w, t))
    \/ \E r \in ResIds : Quiet(ConnBreak(r))
    \/ \E r \in ResIds : Quiet(BrokenClosed(r))
    \/ \E r \in ResIds : Quiet(ClientDisconnect(r))
    \/ \E r \in ResIds : Quiet(ResponseFinished(r))

FaultSpec == FaultInit /\ [][FaultNext]_vars

\* the connection of a poll request is lost before its handler writes to it
RequestBreak(r) ==
    /\ resp[r].state = "held"
    /\ \E w \in workers : cur[w].kind = "poll" /\ cur[w].res = r
    /\ resp' = [resp EXCEPT ![r].state = "broken"]
    /\ UNCHANGED <<users, messages, deliveries, workers, waitingClients,
                   timers, cur, handed, pollReturns, submitted>>

WriteFaultNext == FaultNext \/ \E r \in ResIds : Quiet(RequestBreak(r))

WriteFaultSpec == FaultInit /\ [][WriteFaultNext]_vars

\* ================================================================ claims
Registered == 1 .. Len(users)
RowsOf(m, u) ==
    {i \in 1 .. Len(deliveries) :
        deliveries[i].message_id = m /\ deliveries[i].user_id = u}
Sent(m) == m \in 1 .. Len(submitted) /\ submitted[m].status = 201

\* C1 (as claimed): after a successful send there is exactly one delivery
\* row for the new message for every user registered at send time.
C1_EveryRegisteredUserHasRow ==
    \A m \in 1 .. Len(submitted) :
        Sent(m) =>
            \A u \in 1 .. submitted[m].registered :
                Cardinality(RowsOf(m, u)) = 1

\* the wrapped key, ciphertext and IV of msg are the ones the sender of
\* that message submitted, the key under userId u
AsSubmittedFor(u, msg) ==
    /\ msg.id \in 1 .. Len(submitted)
    /\ LET sub == submitted[msg.id] IN
       /\ msg.encryptedContent = sub.encryptedContent
       /\ msg.iv = sub.iv
       /\ msg.senderId = sub.senderId
       /\ \E i \in 1 .. Len(sub.keys) :
             /\ sub.keys[i].userId = u
             /\ sub.keys[i].encryptedKey = msg.encryptedKey
       /\ \A i \in 1 .. Len(sub.keys) :
             sub.keys[i].encryptedKey = msg.encryptedKey
                => sub.keys[i].userId = u

HistoryOf(u, pageQ, pageSizeQ) ==
    GetMessageHistory(messages, deliveries, users, u, PageOf(pageQ),
                      PageSizeOf(pageSizeQ))

\* C2: every message handed to user u by a poll fetch, a broadcast or a
\* history fetch carries the wrapped key submitted under userId u, and
\* the ciphertext and IV the sender submitted.
C2_HandedKeyIsRecipientsOwn ==
    /\ \A e \in handed : AsSubmittedFor(e.userId, e.msg)
    /\ \A u \in Registered, pageQ \in PageQueries, pageSizeQ \in PageSizeQueries :
          LET h == HistoryOf(u, pageQ, pageSizeQ).messages IN
          \A i \in 1 .. Len(h) : AsSubmittedFor(u, h[i])

\* reached: one user was handed a message by a poll fetch, another by a
\* broadcast, and a history page of a recipient is not empty
C2_Witness ==
    /\ \E e \in handed : e.path = "poll" /\ e.msg.senderId # e.userId
    /\ \E e \in handed : e.path = "broadcast"
    /\ \E u \in Registered :
          LET h == HistoryOf(u, NoQuery, NoQuery).messages IN
          Len(h) > 0 /\ h[1].senderId # u

\* ---------------------------------------------------------------- C4
PollStartStep(w) == cur[w].kind = "idle" /\ cur'[w].kind = "poll"
PollFinishStep(w) == cur[w].kind = "poll" /\ cur'[w] = Idle

\* C4: getMessagesForUser(u) returns each delivery addressed to u at most
\* once. A poll fetch takes exactly the rows undelivered at that moment,
\* none of which an earlier fetch has returned, and marks them delivered;
\* in one server process, where fetches run one after the other, no row is
\* ever returned twice and a repeated fetch with no send in between finds
\* nothing.
C4_RowReturnedAtMostOnce ==
    [][/\ workers = {1} => \A p \in DOMAIN pollReturns : pollReturns'[p] <= 1
       /\ \A w \in WorkerIds :
             PollStartStep(w) =>
                LET u == cur'[w].userId
                    rows == cur'[w].rows
                IN  /\ rows = DbGetUndeliveredForUserE2E(messages, deliveries,
                                                         users, u)
                    /\ \A i \in 1 .. Len(rows) :
                          pollReturns[<<rows[i].id, u>>] = 0
       /\ \A w \in WorkerIds :
             PollFinishStep(w) =>
                LET u == cur[w].userId
                    rows == cur[w].rows
                IN  /\ \A i \in 1 .. Len(rows) :
                          \A j \in 1 .. Len(deliveries') :
                              (/\ deliveries'[j].message_id = rows[i].id
                               /\ deliveries'[j].user_id = u)
                                  => deliveries'[j].delivered
                    /\ workers = {1} =>
                          DbGetUndeliveredForUserE2E(messages', deliveries',
                                                     users', u) = <<>>]_vars

\* reached: a user fetched one message by a poll, a second message was
\* sent to the same user afterwards and fetched by a later poll
C4_Witness ==
    \E u \in Registered :
        /\ Sent(1) /\ Sent(2)
        /\ submitted[1].senderId # u /\ submitted[2].senderId # u
        /\ pollReturns[<<1, u>>] = 1
        /\ pollReturns[<<2, u>>] = 1
        /\ Cardinality({e \in handed : e.userId = u /\ e.path = "poll"}) = 2

\* ---------------------------------------------------------------- C5
Delivered(m, u) ==
    RowsOf(m, u) # {} /\ \A i \in RowsOf(m, u) : deliveries[i].delivered

\* C5 (as claimed, the history path): a history fetch marks the rows it
\* hands to the recipient delivered.
C5_HistoryFetchMarksDelivered ==
    \A w \in WorkerIds, u \in Registered,
       pageQ \in PageQueries, pageSizeQ \in PageSizeQueries :
        Ready(w) =>
            LET h == HistoryOf(u, pageQ, pageSizeQ) IN
            \A i \in 1 .. Len(h.messages) :
                \A j \in 1 .. Len(h.deliveries) :
                    (/\ h.deliveries[j].message_id = h.messages[i].id
                     /\ h.deliveries[j].user_id = u)
                        => h.deliveries[j].delivered

\* C5 (amended): a row never goes back from delivered to undelivered and
\* keeps its message, user and key; a poll fetch and a broadcast mark the
\* rows they hand to the recipient delivered; a history fetch leaves the
\* delivered flags as they are.
C5_DeliveredOnceByPollOrBroadcast ==
    /\ [](\A u \in Registered, pageQ \in PageQueries,
             pageSizeQ \in PageSizeQueries :
             HistoryOf(u, pageQ, pageSizeQ).deliveries = deliveries)
    /\ [][/\ Len(deliveries') >= Len(deliveries)
          /\ \A i \in 1 .. Len(deliveries) :
                /\ deliveries'[i].message_id = deliveries[i].message_id
                /\ deliveries'[i].user_id = deliveries[i].user_id
                /\ deliveries'[i].encrypted_key = deliveries[i].encrypted_key
                /\ deliveries[i].delivered => deliveries'[i].delivered
          /\ \A e \in handed' \ handed :
                /\ e.path \in {"poll", "broadcast"}
                /\ \E i \in 1 .. Len(deliveries') :
                      /\ deliveries'[i].message_id = e.msg.id
                      /\ deliveries'[i].user_id = e.userId
                      /\ deliveries'[i].delivered]_vars

\* reached: a row handed to its recipient by a poll fetch or a broadcast
\* is marked delivered, and a history page of a user shows a message that
\* was sent successfully and whose row is still undelivered
C5_Witness ==
    /\ \E e \in handed :
          e.msg.senderId # e.userId /\ Delivered(e.msg.id, e.userId)
    /\ \E u \in Registered :
          LET h == HistoryOf(u, NoQuery, NoQuery).messages IN
          \E i \in 1 .. Len(h) : Sent(h[i].id) /\ ~Delivered(h[i].id, u)

\* ---------------------------------------------------------------- C6
\* C6: once createMessage has returned, the sender's own row of that
\* message is marked delivered; no poll fetch made after that returns the
\* message to its sender, and no broadcast writes a message to its sender.
C6_SenderNeverHandedOwnMessage ==
    [][/\ \A m \in 1 .. Len(submitted') :
             submitted'[m].status = 201 =>
                \A i \in 1 .. Len(deliveries') :
                    (/\ deliveries'[i].message_id = m
                     /\ deliveries'[i].user_id = submitted'[m].senderId)
                        => deliveries'[i].delivered
       /\ \A e \in handed' :
             e.path = "broadcast" => e.msg.senderId # e.userId
       /\ \A w \in WorkerIds :
             PollStartStep(w) =>
                \A i \in 1 .. Len(cur'[w].rows) :
                    (/\ cur'[w].rows[i].sender_id = cur'[w].userId
                     /\ cur'[w].rows[i].id <= Len(submitted))
                        => submitted[cur'[w].rows[i].id].status # 201]_vars

\* reached: a send succeeded with a row for the sender, the sender holds a
\* poll registered after it, and another user got the message by broadcast
C6_Witness ==
    \E m \in 1 .. Len(submitted) :
        /\ Sent(m)
        /\ Delivered(m, submitted[m].senderId)
        /\ \E w \in workers :
              waitingClients[w][submitted[m].senderId] # NoClient
        /\ \E e \in handed : e.path = "broadcast" /\ e.msg.id = m

\* ---------------------------------------------------------------- C7
\* C7: when a send has succeeded, or a waiting client was resolved by the
\* broadcast of a message, the message row, a delivery row for every
\* entry of keys and the sender's delivered mark are already in the store.
C7_RowsPersistedBeforeBroadcast ==
    \A m \in 1 .. Len(submitted) :
        (Sent(m) \/ \E e \in handed : e.path = "broadcast" /\ e.msg.id = m)
            => /\ m <= Len(messages)
               /\ \A i \in 1 .. Len(submitted[m].keys) :
                     \E j \in RowsOf(m, submitted[m].keys[i].userId) :
                         deliveries[j].encrypted_key =
                             submitted[m].keys[i].encryptedKey
               /\ \A j \in RowsOf(m, submitted[m].senderId) :
                     deliveries[j].delivered

\* reached: a send with two recipients succeeded and its broadcast
\* resolved a waiting client
C7_Witness ==
    \E m \in 1 .. Len(submitted) :
        /\ Sent(m)
        /\ Len(submitted[m].keys) = 2
        /\ \E e \in handed : e.path = "broadcast" /\ e.msg.id = m

\* ---------------------------------------------------------------- C8
\* C8: a poll that finds undelivered rows is answered at once with those
\* messages and leaves the registry and the timers as they are; a poll
\* that finds none is registered as waiting and writes no response.
C8_PollAnswersOrRegisters ==
    [][\A w \in WorkerIds :
          PollFinishStep(w) =>
             LET u == cur[w].userId
                 r == cur[w].res
                 pending == PollResult(cur[w].rows)
             IN  IF Len(pending) > 0
                 THEN /\ waitingClients' = waitingClients
                      /\ timers' = timers
                      /\ resp'[r].state # "held"
                      /\ handed' \ handed \subseteq HandedBy("poll", u, pending)
                      /\ HandedBy("poll", u, pending) \subseteq handed'
                 ELSE /\ waitingClients'[w][u] = [res |-> r, timeout |-> r]
                      /\ \E t \in timers'[w] : t.id = r /\ t.res = r
                      /\ resp'[r].state = "held" /\ resp'[r].writes = 0
                      /\ handed' = handed]_vars

\* reached: a user holds a registered poll that found nothing, and the
\* same user was answered at once by another poll that found a message
C8_Witness ==
    \E w \in workers, u \in Registered :
        /\ waitingClients[w][u] # NoClient
        /\ resp[waitingClients[w][u].res].state = "held"
        /\ \E e \in handed : e.userId = u /\ e.path = "poll"

\* ---------------------------------------------------------------- C9
Registering(w, r) == cur[w].kind = "poll" /\ cur[w].res = r

\* C9: per process the registry has at most one waiting response and one
\* armed timer per user; when a poll is registered for a user who already
\* has an entry, the stale response is answered with an empty list, its
\* timer is cancelled, and the entry is the new response.
C9_OneWaitingEntryPerUser ==
    /\ [](\A w \in WorkerIds, u \in UserIds :
            LET e == waitingClients[w][u] IN
            /\ {t.id : t \in {x \in timers[w] : x.userId = u}} =
                  IF e = NoClient THEN {} ELSE {e.timeout}
            /\ {r \in ResIds : /\ resp[r].state = "held"
                               /\ resp[r].worker = w /\ resp[r].userId = u
                               /\ ~Registering(w, r)} =
                  IF e = NoClient THEN {} ELSE {e.res})
    /\ [][\A w \in WorkerIds :
            LET u == cur[w].userId
                old == waitingClients[w][u]
            IN  (PollFinishStep(w) /\ cur[w].rows = <<>> /\ old # NoClient) =>
                   /\ resp'[old.res].state = "answered"
                   /\ resp'[old.res].writes = 1
                   /\ resp'[old.res].body = <<>>
                   /\ \A t \in timers'[w] : t.id # old.timeout
                   /\ waitingClients'[w][u] =
                         [res |-> cur[w].res, timeout |-> cur[w].res]]_vars

\* reached: a user's stale poll was answered with an empty list by a
\* superseding poll of the same user, which is now the registered one
C9_Witness ==
    \E r \in ResIds, w \in workers :
        /\ resp[r].state = "answered" /\ resp[r].by = "superseded"
        /\ resp[r].body = <<>>
        /\ waitingClients[w][resp[r].userId] # NoClient
        /\ waitingClients[w][resp[r].userId].res # r
        /\ resp[r].worker = w

\* ---------------------------------------------------------------- C3
Undelivered(m, u) == \E i \in RowsOf(m, u) : ~deliveries[i].delivered
HandedTo(m, u) == \E e \in handed : e.userId = u /\ e.msg.id = m
OwnMessage(m, u) == m \in 1 .. Len(messages) /\ messages[m].sender_id = u

C10_HeldPollIsAnswered ==
    /\ [](\A w \in WorkerIds : \A t \in timers[w] :
            /\ t.delay = 30000
            /\ waitingClients[w][t.userId] = [res |-> t.res, timeout |-> t.id]
            /\ resp[t.res].state = "held" /\ resp[t.res].writes = 0)
    /\ [][\A r \in ResIds :
            (resp'[r].by = "timeout" /\ resp[r].by # "timeout") =>
               /\ resp[r].state = "held"
               /\ resp'[r].state = "answered"
               /\ resp'[r].writes = 1
               /\ resp'[r].body = <<>>
               /\ waitingClients'[resp[r].worker][resp[r].userId] = NoClient
               /\ \A t \in timers'[resp[r].worker] : t.res # r]_vars
    /\ \A r \in ResIds : (resp[r].state = "held") ~> (resp[r].state # "held")

\* reached: a held poll was answered with an empty list by its timer
C10_Witness ==
    \E r \in ResIds :
        /\ resp[r].state = "answered" /\ resp[r].by = "timeout"
        /\ resp[r].body = <<>>
        /\ \A w \in workers : waitingClients[w][resp[r].userId] = NoClient

\* ---------------------------------------------------------------- C11
\* the step of process w that runs broadcastToClientsE2E
SendBroadcastStep(w) ==
    /\ w \in workers
    /\ cur[w].kind = "send"
    /\ CreateMessageOrder[cur[w].phase] = "broadcast"
    /\ cur'[w] # cur[w]
KeyedIn(keys, u) == \E i \in 1 .. Len(keys) : keys[i].userId = u
TimersOf(tm, u) == {t \in tm : t.userId = u}

\* C11: a broadcast resolves exactly the waiting users of its process who
\* are not the sender and have an entry in keys: each is answered with a
\* list of this one message under their own wrapped key, leaves the
\* registry, loses the timer, and has the row marked delivered; every
\* other entry of the registry, with its timer and response, is untouched.
C11_BroadcastResolvesKeyedWaiters ==
    [][\A w \in WorkerIds :
         SendBroadcastStep(w) =>
            LET h == cur[w] IN
            /\ \A u \in UserIds :
                  LET e == waitingClients[w][u] IN
                  IF e # NoClient /\ u # h.userId /\ KeyedIn(h.keys, u)
                  THEN /\ resp'[e.res].state = "answered"
                       /\ resp'[e.res].writes = 1
                       /\ Len(resp'[e.res].body) = 1
                       /\ resp'[e.res].body[1].id = h.messageId
                       /\ AsSubmittedFor(u, resp'[e.res].body[1])
                       /\ waitingClients'[w][u] = NoClient
                       /\ TimersOf(timers'[w], u) = {}
                       /\ \A i \in RowsOf(h.messageId, u) :
                             deliveries'[i].delivered
                  ELSE /\ waitingClients'[w][u] = e
                       /\ TimersOf(timers'[w], u) = TimersOf(timers[w], u)
                       /\ e # NoClient => /\ resp'[e.res] = resp[e.res]
                                         /\ TimersOf(timers[w], u) # {}
            /\ \A v \in WorkerIds \ {w} :
                  /\ waitingClients'[v] = waitingClients[v]
                  /\ timers'[v] = timers[v]]_vars

\* reached: a broadcast answered a waiting recipient while the sender's
\* own poll, registered before the send, is still held with its timer
C11_Witness ==
    \E e \in handed, w \in workers :
        /\ e.path = "broadcast"
        /\ Sent(e.msg.id)
        /\ LET s == waitingClients[w][e.msg.senderId] IN
           /\ s # NoClient
           /\ resp[s.res].state = "held"
           /\ TimersOf(timers[w], e.msg.senderId) # {}
        /\ \E r \in ResIds :
              /\ resp[r].worker = w /\ resp[r].userId = e.userId
              /\ resp[r].by = "broadcast"
              /\ resp[r].body = <<e.msg>>

\* ---------------------------------------------------------------- C13
\* 'close' is emitted on response r, held or answered, and its handler runs
CloseStep(r) ==
    /\ resp[r].state \in {"held", "answered"}
    /\ ~Registering(resp[r].worker, r)
    /\ resp'[r] = FreeRes

\* C13: when the connection of a held poll closes before the poll was
\* resolved, its timer is cleared and its registry entry removed, and
\* nothing else of the registry changes; when the connection of a poll
\* that was already resolved or superseded closes, the registry and the
\* timers stay as they are, a newer registration of the same user included.
C13_CloseRemovesOnlyOwnEntry ==
    [][\A r \in ResIds :
         CloseStep(r) =>
            LET w == resp[r].worker
                u == resp[r].userId
            IN  IF resp[r].state = "held"
                THEN /\ waitingClients[w][u].res = r
                     /\ waitingClients'[w][u] = NoClient
                     /\ timers'[w] = {t \in timers[w] : t.res # r}
                     /\ \E t \in timers[w] : t.res = r
                     /\ \A v \in WorkerIds, x \in UserIds :
                           <<v, x>> # <<w, u>> =>
                              waitingClients'[v][x] = waitingClients[v][x]
                     /\ \A v \in WorkerIds \ {w} : timers'[v] = timers[v]
                ELSE /\ waitingClients' = waitingClients
                     /\ timers' = timers]_vars

\* reached: the only user, with nothing to receive, holds a registered
\* poll with its timer on the second response object while the first one
\* is free again: the first was the user's earlier poll, superseded or
\* timed out before it closed, and its close left the newer entry alone
C13_Witness ==
    /\ workers = {1} /\ Len(users) = 1 /\ messages = <<>>
    /\ cur[1] = Idle
    /\ waitingClients[1][1] = [res |-> 2, timeout |-> 2]
    /\ resp[2].state = "held"
    /\ \E t \in timers[1] : t.res = 2
    /\ resp[1] = FreeRes

\* ---------------------------------------------------------------- C12
\* C12: when the write to a waiting client fails during a broadcast, that
\* client still leaves the registry and loses its timer, its delivery row
\* stays undelivered and the message is not handed to it; the other
\* waiting recipients of the same broadcast are answered and marked; the
\* send returns 201; and the next poll fetch of the failed client's user
\* takes every undelivered row of that user, this one included.
C12_FailedWriteKeepsRowUndelivered ==
    [][\A w \in WorkerIds :
         /\ SendBroadcastStep(w) =>
               LET h == cur[w] IN
               /\ submitted'[h.messageId].status = 201
               /\ \A u \in DOMAIN waitingClients[w] :
                     LET e == waitingClients[w][u] IN
                     (e # NoClient /\ u # h.userId /\ KeyedIn(h.keys, u)) =>
                        /\ waitingClients'[w][u] = NoClient
                        /\ TimersOf(timers'[w], u) = {}
                        /\ RowsOf(h.messageId, u) # {}
                        /\ IF resp[e.res].state = "broken"
                           THEN /\ resp'[e.res].state = "broken"
                                /\ resp'[e.res].body = <<>>
                                /\ \A i \in RowsOf(h.messageId, u) :
                                      ~deliveries'[i].delivered
                                /\ \A x \in handed' :
                                      ~(x.userId = u /\ x.msg.id = h.messageId)
                           ELSE /\ resp'[e.res].state = "answered"
                                /\ Len(resp'[e.res].body) = 1
                                /\ resp'[e.res].body[1].id = h.messageId
                                /\ \A i \in RowsOf(h.messageId, u) :
                                      deliveries'[i].delivered
         /\ PollStartStep(w) =>
               \A m \in 1 .. Len(messages) :
                  Undelivered(m, cur'[w].userId) =>
                     \E i \in 1 .. Len(cur'[w].rows) : cur'[w].rows[i].id = m]_vars

\* reached: a broadcast failed to write to one waiting recipient, whose
\* row is still undelivered and who is no longer registered, and answered
\* another waiting recipient with the same message; the send returned 201
C12_Witness ==
    \E r \in ResIds, e \in handed :
        LET u == resp[r].userId
            m == e.msg.id
        IN  /\ resp[r].state = "broken" /\ resp[r].by = "broadcast"
            /\ e.path = "broadcast" /\ e.userId # u
            /\ Sent(m)
            /\ Undelivered(m, u)
            /\ waitingClients[resp[r].worker][u] = NoClient

\* ---------------------------------------------------------------- C14
\* C14: on the protected routes a request without a token is answered 401
\* and one whose token is invalid or expired 403, and neither changes
\* anything; a handler only runs, and a request is only answered otherwise,
\* for a valid token, with the token's {userId, username} as the identity
\* the handler acts for.
C14_ProtectedRoutesNeedValidToken ==
    /\ [](reply.route \in Routes =>
            /\ reply.token.kind = "none" => reply.status = 401
            /\ reply.token.kind \notin {"none", "valid"} => reply.status = 403
            /\ reply.status \notin {401, 403} =>
                  /\ reply.token \in ValidTokens(users)
                  /\ reply.user = [userId |-> reply.token.userId,
                                   username |-> reply.token.username]
                  /\ users[reply.user.userId] = reply.user.username)
    /\ [](\A w \in WorkerIds :
            cur[w].kind # "idle" =>
               /\ reply.route \in Routes
               /\ reply.token \in ValidTokens(users)
               /\ cur[w].userId = reply.token.userId
               /\ cur[w].username = reply.token.username)
    /\ [][(reply' # reply /\ reply' # NoReply /\ reply'.route \in Routes
              /\ reply'.token.kind # "valid") =>
             UNCHANGED server]_vars

\* reached: a send with the expired token of a stored user, while another
\* user's poll is waiting, was answered 403
C14_Witness ==
    /\ reply.route = "send" /\ reply.status = 403
    /\ reply.token.kind = "expired"
    /\ \E u \in UserIds : u # reply.token.userId /\ waitingClients[1][u] # NoClient

\* ---------------------------------------------------------------- C18
\* the bodies the claim lists: encryptedContent, iv or keys missing, keys
\* empty, an entry without userId or encryptedKey, ciphertext too long
Malformed(body) ==
    \/ ~body.hasContent \/ ~body.hasIv \/ body.keysKind = "absent"
    \/ body.keysKind = "array" /\ body.keys = <<>>
    \/ /\ body.keysKind = "array"
       /\ \E i \in 1 .. Len(body.keys) :
             body.keys[i].userId = 0 \/ ~body.keys[i].hasKey
    \/ body.len > 20000

\* C18: an authenticated send whose body omits encryptedContent, iv or
\* keys, has an empty keys array, has a keys entry without userId or
\* encryptedKey, or has an encryptedContent of more than 20,000 characters
\* is answered 400; it adds no message row and no delivery row and leaves
\* every waiting client, timer and response as it was.
C18_MalformedSendRejected ==
    [][(/\ reply' # reply /\ reply' # NoReply
        /\ reply'.route = "send" /\ reply'.token.kind = "valid"
        /\ Malformed(reply'.req)) =>
           /\ reply'.status = 400
           /\ UNCHANGED <<users, messages, deliveries, waitingClients,
                          timers, resp, handed, cur>>]_vars

\* reached: a send whose only fault is a ciphertext of 20,001 characters,
\* with a key for a user whose poll is waiting, was answered 400; the
\* store holds no message and the poll is still held
C18_Witness ==
    /\ reply.route = "send" /\ reply.status = 400
    /\ reply.req.len = 20001
    /\ reply.req.hasContent /\ reply.req.hasIv /\ reply.req.keysKind = "array"
    /\ messages = <<>> /\ deliveries = <<>>
    /\ \E i \in 1 .. Len(reply.req.keys) :
          LET u == reply.req.keys[i].userId IN
          /\ u # reply.user.userId
          /\ waitingClients[1][u] # NoClient
          /\ resp[waitingClients[1][u].res].state = "held"

\* ---------------------------------------------------------------- C20
Numeric(q) == q.kind \in {"int", "prefixed"}
HistoryAnswered == reply.route = "history" /\ reply.status = 200

\* C20 (as claimed): every history response has page >= 1 and
\* 1 <= pageSize <= 100; page is 1 and pageSize 50 when the parameter is
\* absent; a value below 1 is raised to 1; a pageSize above 100 is
\* lowered to 100.
C20_ValuesBelowOneRaisedToOne ==
    HistoryAnswered =>
       LET q == reply.req
           d == reply.data
       IN  /\ d.page >= 1 /\ d.pageSize >= 1 /\ d.pageSize <= 100
           /\ q.page = NoQuery => d.page = 1
           /\ q.pageSize = NoQuery => d.pageSize = 50
           /\ (Numeric(q.page) /\ q.page.n < 1) => d.page = 1
           /\ (Numeric(q.pageSize) /\ q.pageSize.n < 1) => d.pageSize = 1
           /\ (Numeric(q.pageSize) /\ q.pageSize.n > 100) => d.pageSize = 100

\* C20: every history response has page >= 1 and 1 <= pageSize <= 100.
\* A parameter that is absent, not a number, or the number 0 takes the
\* default (page 1, pageSize 50); a negative value is raised to 1; a
\* pageSize above 100 is lowered to 100; any other value is used as given.
C20_PageAndPageSizeClamped ==
    HistoryAnswered =>
       LET q == reply.req
           d == reply.data
       IN  /\ d.page >= 1 /\ d.pageSize >= 1 /\ d.pageSize <= 100
           /\ (~Numeric(q.page) \/ q.page.n = 0) => d.page = 1
           /\ (~Numeric(q.pageSize) \/ q.pageSize.n = 0) => d.pageSize = 50
           /\ (Numeric(q.page) /\ q.page.n < 0) => d.page = 1
           /\ (Numeric(q.pageSize) /\ q.pageSize.n < 0) => d.pageSize = 1
           /\ (Numeric(q.pageSize) /\ q.pageSize.n > 100) => d.pageSize = 100
           /\ (Numeric(q.page) /\ q.page.n >= 1) => d.page = q.page.n
           /\ (Numeric(q.pageSize) /\ q.pageSize.n \in 1 .. 100) =>
                 d.pageSize = q.pageSize.n

\* reached: a history request with pageSize=0 was answered with pageSize 50
C20_Witness ==
    /\ HistoryAnswered
    /\ reply.req.pageSize = NumQuery(0)
    /\ reply.data.pageSize = 50
    /\ reply.data.page = 1

\* ---------------------------------------------------------------- C17
MessageFields ==
    {"id", "senderId", "senderUsername", "encryptedContent", "iv", "encryptedKey"}
\* a message object for user u: no content field, and the ciphertext, IV
\* and wrapped key the sender submitted (createdAt is not modelled)
CiphertextOnly(u, msg) == DOMAIN msg = MessageFields /\ AsSubmittedFor(u, msg)

\* C17: the stored message rows hold the submitted ciphertext and IV and no
\* content column; every message object written by a poll, a broadcast or
\* a history fetch has no content field and carries the ciphertext, the IV
\* and the recipient's wrapped key as submitted; the value createMessage
\* returns to the sender has id, senderId and senderUsername only.
C17_NoPlaintextStoredOrReturned ==
    /\ \A m \in 1 .. Len(messages) :
          /\ DOMAIN messages[m] =
                {"id", "sender_id", "encrypted_content", "encryption_iv"}
          /\ messages[m].encrypted_content = submitted[m].encryptedContent
          /\ messages[m].encryption_iv = submitted[m].iv
    /\ \A i \in 1 .. Len(deliveries) :
          \E k \in 1 .. Len(submitted[deliveries[i].message_id].keys) :
             submitted[deliveries[i].message_id].keys[k] =
                [userId |-> deliveries[i].user_id,
                 encryptedKey |-> deliveries[i].encrypted_key]
    /\ \A e \in handed : CiphertextOnly(e.userId, e.msg)
    /\ \A r \in ResIds :
          \A i \in 1 .. Len(resp[r].body) :
             CiphertextOnly(resp[r].userId, resp[r].body[i])
    /\ (reply.route = "poll" /\ reply.status = 200) =>
          \A i \in 1 .. Len(reply.data) :
             CiphertextOnly(reply.user.userId, reply.data[i])
    /\ (reply.route = "history" /\ reply.status = 200) =>
          \A i \in 1 .. Len(reply.data.messages) :
             CiphertextOnly(reply.user.userId, reply.data.messages[i])
    /\ (reply.route = "send" /\ reply.status = 201) =>
          /\ DOMAIN reply.data = {"id", "senderId", "senderUsername"}
          /\ reply.data.id = Len(messages)
          /\ reply.data.senderId = reply.user.userId

\* reached: a client sent the plaintext along in a content field; the send
\* was answered 201, the waiting recipient was handed the message by the
\* broadcast, and the sender's history shows it
C17_Witness ==
    /\ reply.route = "send" /\ reply.status = 201
    /\ reply.req.plain
    /\ \E e \in handed : e.path = "broadcast" /\ e.msg.id = reply.data.id
    /\ Len(HistoryOf(reply.user.userId, NoQuery, NoQuery).messages) = 1


\* the bodies POST /register must refuse: username or password missing, a
\* username shorter than 3 or longer than 30 characters, a password shorter
\* than 6 characters, or a key-material field missing
InvalidRegistration(body) ==
    \/ body.username = ""
    \/ body.password = ""
    \/ Len(body.username) < 3
    \/ Len(body.username) > 30
    \/ Len(body.password) < 6
    \/ ~body.publicKey
    \/ ~body.encryptedPrivateKey
    \/ ~body.encryptedPrivateKeyIv

\* C19: a registration request with a missing username or password, a
\* username shorter than 3 or longer than 30 characters, a password shorter
\* than 6 characters, or any missing key-material field is answered 400; no
\* user is created and no token is issued: such a body never reaches the
\* password hashing, and every answer to it carries status 400 and no token
\* and leaves the users as they were
C19_InvalidRegistrationRejected ==
    /\ [](\A i \in 1 .. Len(hashing) : ~InvalidRegistration(hashing[i]))
    /\ []((reply.route = "register" /\ InvalidRegistration(reply.req)) =>
            /\ reply.status = 400
            /\ reply.data.token = NoToken)
    /\ [][(reply' # reply /\ reply'.route = "register"
             /\ InvalidRegistration(reply'.req)) =>
                users' = users /\ hashing' = hashing]_vars

\* reached: a registration whose only fault is the missing IV of the
\* encrypted private key, for a free username of the shortest length and a
\* password of the shortest length, has been answered 400
C19_Witness ==
    /\ reply.route = "register" /\ reply.status = 400
    /\ reply.req.username = "bob" /\ reply.req.password = GoodPassword
    /\ reply.req.publicKey /\ reply.req.encryptedPrivateKey
    /\ ~reply.req.encryptedPrivateKeyIv
    /\ DbFindUserByUsername(users, "bob") = {}


\* what the client of POST /login sees: status, error message and token
Outcome(o) == [status |-> o.status, error |-> o.error, token |-> o.token]
UnknownNames == {n \in {b.username : b \in LoginBodies} \ {""} :
                    \A i \in 1 .. Len(users) : users[i] # n}
KnownNames == {users[i] : i \in 1 .. Len(users)}
GivenPasswords == {b.password : b \in LoginBodies} \ {""}
WrongPasswords == GivenPasswords \ {GoodPassword}

\* C16: a login with an unknown username and a login with a known username
\* but wrong password produce the same observable outcome: status 401, the
\* identical error message and no token, whatever users are stored; and
\* every answer sent to such a login is that outcome
C16_LoginDoesNotRevealUsername ==
    /\ \A n1 \in UnknownNames, p1 \in GivenPasswords :
          \A n2 \in KnownNames, p2 \in WrongPasswords :
             /\ Outcome(LoginUser(users, n1, p1))
                   = Outcome(LoginUser(users, n2, p2))
             /\ LoginUser(users, n1, p1).status = 401
             /\ LoginUser(users, n1, p1).token = NoToken
    /\ (/\ reply.route = "login"
        /\ reply.req.username # "" /\ reply.req.password # ""
        /\ \/ reply.req.username \in UnknownNames
           \/ reply.req.password \in WrongPasswords) =>
          /\ reply.status = 401
          /\ reply.data = AuthData("Invalid username or password", NoToken)
          /\ reply.user = NoUser

\* reached: with alice and bob stored and nobody unknown, a login as bob
\* with a wrong password has been answered 401
C16_Witness ==
    /\ reply.route = "login" /\ reply.status = 401
    /\ reply.req.username = "bob" /\ reply.req.password = "wrong-password"
    /\ "bob" \in KnownNames /\ "alice" \in KnownNames
    /\ "nobody" \in UnknownNames


\* the stored user i holds the username
HeldBy(usrs, username) == \E i \in 1 .. Len(usrs) : usrs[i] = username

Step == POLL_RETRY_DELAY \div 2

\* the refs and the state of the hook, as one value
Hook ==
    [isActive |-> isActive, hasConnectedOnce |-> hasConnectedOnce,
     connectionStatus |-> connectionStatus,
     abortControllerRef |-> abortControllerRef, loops |-> loops,
     polls |-> polls, onMessagesCalls |-> onMessagesCalls]
SetHook(h) ==
    /\ isActive' = h.isActive
    /\ hasConnectedOnce' = h.hasConnectedOnce
    /\ connectionStatus' = h.connectionStatus
    /\ abortControllerRef' = h.abortControllerRef
    /\ loops' = h.loops
    /\ polls' = h.polls
    /\ onMessagesCalls' = h.onMessagesCalls

\* a call of poll() that has returned
LoopDone == [pc |-> "done", req |-> 0, due |-> 0, elapsed |-> 0,
             steady |-> FALSE]
\* the delay poll() waits after a failed request
RetryDelay_Half == POLL_RETRY_DELAY \div 2
RetryDelay == POLL_RETRY_DELAY

\* setConnectionStatus; connectionStatus is the last value given to it
SetConnectionStatus(h, status) == [h EXCEPT !.connectionStatus = status]

\* a loop head that shows connecting before every request
LoopTop_AlwaysConnecting(h, l) ==
    IF ~h.isActive
    THEN [h EXCEPT !.loops[l] = LoopDone]
    ELSE LET s == SetConnectionStatus(h, "connecting")
             p == Len(h.polls) + 1
         IN  [s EXCEPT
                !.abortControllerRef = p,
                !.polls = Append(h.polls, [loop |-> l, aborted |-> FALSE,
                                           state |-> "pending",
                                           messages |-> <<>>]),
                !.loops[l] = [pc |-> "request", req |-> p, due |-> 0,
                              elapsed |-> 0, steady |-> FALSE]]

\* the head of the while loop down to the await of pollMessages
LoopTop(h, l) ==
    IF ~h.isActive
    THEN [h EXCEPT !.loops[l] = LoopDone]
    ELSE LET s == IF ~h.hasConnectedOnce
                  THEN SetConnectionStatus(h, "connecting") ELSE h
             p == Len(h.polls) + 1
         IN  [s EXCEPT
                !.abortControllerRef = p,
                !.polls = Append(h.polls, [loop |-> l, aborted |-> FALSE,
                                           state |-> "pending",
                                           messages |-> <<>>]),
                !.loops[l] = [pc |-> "request", req |-> p, due |-> 0,
                              elapsed |-> 0, steady |-> FALSE]]

\* onMessages(data.messages)
OnMessages(h, p, list) ==
    [h EXCEPT !.onMessagesCalls =
                 Append(h.onMessagesCalls, [poll |-> p, messages |-> list])]

\* the handler is called for every list, empty or not
AfterSuccess_AlwaysCalls(h, l, list) ==
    LET p == h.loops[l].req
        d == [h EXCEPT !.polls[p].state = "resolved",
                       !.polls[p].messages = list]
    IN  IF ~d.isActive
        THEN [d EXCEPT !.loops[l] = LoopDone]
        ELSE LoopTop(OnMessages(SetConnectionStatus(
                        [d EXCEPT !.hasConnectedOnce = TRUE], "connected"),
                        p, list), l)

\* a try block without the test of isActive after the await
AfterSuccess_NoActiveCheck(h, l, list) ==
    LET p == h.loops[l].req
        d == [h EXCEPT !.polls[p].state = "resolved",
                       !.polls[p].messages = list]
        c == SetConnectionStatus(
                [d EXCEPT !.hasConnectedOnce = TRUE], "connected")
    IN  LoopTop(IF Len(list) > 0 THEN OnMessages(c, p, list) ELSE c, l)

\* pollMessages resolved with data: the rest of the try block, then the
\* head of the loop again
AfterSuccess(h, l, list) ==
    LET p == h.loops[l].req
        d == [h EXCEPT !.polls[p].state = "resolved",
                       !.polls[p].messages = list]
    IN  IF ~d.isActive
        THEN [d EXCEPT !.loops[l] = LoopDone]
        ELSE LET c == SetConnectionStatus(
                         [d EXCEPT !.hasConnectedOnce = TRUE], "connected")
             IN  LoopTop(IF Len(list) > 0 THEN OnMessages(c, p, list) ELSE c,
                         l)

\* a catch block that treats a cancelled request like a failed one
AfterFailure_RetryCancelled(h, l, cancelled) ==
    LET p == h.loops[l].req
        d == [h EXCEPT !.polls[p].state =
                          IF cancelled THEN "cancelled" ELSE "rejected"]
    IN  IF ~d.isActive
        THEN [d EXCEPT !.loops[l] = LoopDone]
        ELSE [SetConnectionStatus(d, "error") EXCEPT
                !.hasConnectedOnce = FALSE,
                !.loops[l] = [pc |-> "sleep", req |-> p, due |-> RetryDelay,
                              elapsed |-> 0, steady |-> TRUE]]

\* pollMessages rejected: the catch block down to the await of the delay
AfterFailure(h, l, cancelled) ==
    LET p == h.loops[l].req
        d == [h EXCEPT !.polls[p].state =
                          IF cancelled THEN "cancelled" ELSE "rejected"]
    IN  IF ~d.isActive
        THEN [d EXCEPT !.loops[l] = LoopDone]
        ELSE IF cancelled
        THEN [d EXCEPT !.loops[l] = LoopDone]
        ELSE [SetConnectionStatus(d, "error") EXCEPT
                !.hasConnectedOnce = FALSE,
                !.loops[l] = [pc |-> "sleep", req |-> p, due |-> RetryDelay,
                              elapsed |-> 0, steady |-> TRUE]]

\* the cleanup function of the effect
Cleanup(h) ==
    [SetConnectionStatus(h, "disconnected") EXCEPT
       !.isActive = FALSE,
       !.hasConnectedOnce = FALSE,
       !.polls = [p \in DOMAIN h.polls |->
                     IF p = h.abortControllerRef
                     THEN [h.polls[p] EXCEPT !.aborted = TRUE]
                     ELSE h.polls[p]],
       !.loops = [l \in DOMAIN h.loops |->
                     [h.loops[l] EXCEPT !.steady = FALSE]]]

\* the effect body; the microtask it queues when not enabled runs before
\* any other event
Effect(h, e) ==
    IF ~e
    THEN SetConnectionStatus([h EXCEPT !.hasConnectedOnce = FALSE],
                             "disconnected")
    ELSE LET l == Len(h.loops) + 1 IN
         LoopTop([h EXCEPT !.isActive = TRUE,
                           !.loops = Append(h.loops, LoopDone)], l)

\* what a step may leave behind: the bounds on loops and requests
Within(h) == Len(h.loops) <= MaxLoops /\ Len(h.polls) <= MaxRequests

\* the first render and its effect
Mount(e) ==
    /\ mount = "no"
    /\ mount' = "yes"
    /\ enabled' = e
    /\ LET h == Effect([Hook EXCEPT !.connectionStatus =
                           IF e THEN "connecting" ELSE "disconnected"], e)
       IN  Within(h) /\ SetHook(h)

\* a render with the other value of enabled: cleanup of the last effect,
\* if it returned one, then the effect
SetEnabled(e) ==
    /\ mount = "yes"
    /\ e # enabled
    /\ mount' = mount
    /\ enabled' = e
    /\ LET h == Effect(IF enabled THEN Cleanup(Hook) ELSE Hook, e)
       IN  Within(h) /\ SetHook(h)

\* a render with a new onMessages while enabled: poll changes, and the
\* effect depends on it
Rerun ==
    /\ mount = "yes"
    /\ enabled
    /\ UNCHANGED <<mount, enabled>>
    /\ LET h == Effect(Cleanup(Hook), TRUE)
       IN  Within(h) /\ SetHook(h)

Unmount ==
    /\ mount = "yes"
    /\ mount' = "gone"
    /\ UNCHANGED enabled
    /\ SetHook(IF enabled THEN Cleanup(Hook) ELSE Hook)

\* the poll request of call l of poll() resolves with a list of messages
PollResolved(l, list) ==
    /\ l \in DOMAIN loops
    /\ loops[l].pc = "request"
    /\ ~polls[loops[l].req].aborted
    /\ UNCHANGED <<mount, enabled>>
    /\ LET h == AfterSuccess(Hook, l, list)
       IN  Within(h) /\ SetHook(h)

\* the poll request of call l fails: no connection, a timeout, an error
\* status
PollRejected(l) ==
    /\ l \in DOMAIN loops
    /\ loops[l].pc = "request"
    /\ ~polls[loops[l].req].aborted
    /\ UNCHANGED <<mount, enabled>>
    /\ SetHook(AfterFailure(Hook, l, FALSE))

\* the aborted poll request of call l ends as cancelled
PollCancelled(l) ==
    /\ l \in DOMAIN loops
    /\ loops[l].pc = "request"
    /\ polls[loops[l].req].aborted
    /\ UNCHANGED <<mount, enabled>>
    /\ SetHook(AfterFailure(Hook, l, TRUE))

\* half the retry delay passes; no timer is overdue
Tick ==
    /\ \E l \in DOMAIN loops : loops[l].pc = "sleep"
    /\ \A l \in DOMAIN loops : loops[l].pc = "sleep" => loops[l].due > 0
    /\ loops' = [l \in DOMAIN loops |->
                   IF loops[l].pc = "sleep"
                   THEN [loops[l] EXCEPT
                           !.due = Max(0, loops[l].due - Step),
                           !.elapsed = Min(2 * POLL_RETRY_DELAY,
                                           loops[l].elapsed + Step)]
                   ELSE loops[l]]
    /\ UNCHANGED <<mount, enabled, isActive, hasConnectedOnce,
                   connectionStatus, abortControllerRef, polls,
                   onMessagesCalls>>

\* the retry delay of call l is over
Wake(l) ==
    /\ l \in DOMAIN loops
    /\ loops[l].pc = "sleep"
    /\ loops[l].due = 0
    /\ UNCHANGED <<mount, enabled>>
    /\ LET h == LoopTop(Hook, l)
       IN  Within(h) /\ SetHook(h)

\* the lists a poll answers with
PollLists == {<<>>, <<1>>, <<1, 2>>}

\* a step of the browser in a run of the hook alone
Alone(A) ==
    A /\ UNCHANGED server /\ UNCHANGED io /\ UNCHANGED crypt
      /\ UNCHANGED session /\ UNCHANGED chat /\ UNCHANGED form
      /\ UNCHANGED composer

HookInit == Init /\ workers = {1}

HookNext ==
    \/ \E e \in BOOLEAN : Alone(Mount(e))
    \/ \E e \in BOOLEAN : Alone(SetEnabled(e))
    \/ Alone(Rerun)
    \/ Alone(Unmount)
    \/ \E l \in 1 .. MaxLoops, list \in PollLists : Alone(PollResolved(l, list))
    \/ \E l \in 1 .. MaxLoops : Alone(PollRejected(l))
    \/ \E l \in 1 .. MaxLoops : Alone(PollCancelled(l))
    \/ Alone(Tick)
    \/ \E l \in 1 .. MaxLoops : Alone(Wake(l))

HookSpec == HookInit /\ [][HookNext]_vars

\* ------------------------------------------------- claims on the polling hook
HookEnabled == mount = "yes" /\ enabled
\* poll request p succeeds in this step
Succeeds(p) ==
    /\ p \in DOMAIN polls
    /\ polls[p].state = "pending"
    /\ polls'[p].state = "resolved"
\* a poll request is issued in this step by the call of poll() that issued p
NextIssuedAfter(p) ==
    /\ Len(polls') = Len(polls) + 1
    /\ polls'[Len(polls')].loop = polls[p].loop
    /\ polls'[Len(polls')].state = "pending"
    /\ loops'[polls[p].loop].pc = "request"
    /\ loops'[polls[p].loop].req = Len(polls')

\* C21: while the polling hook is enabled, every poll request that
\* succeeds, with an empty or a non-empty list, sets the status to connected
\* and is followed in the same step by the next poll request; the message
\* handler is called with the list exactly when the list is non-empty
C21_SuccessConnectsAndPollsAgain ==
    [][\A p \in DOMAIN polls :
         (HookEnabled /\ Succeeds(p)) =>
            /\ connectionStatus' = "connected"
            /\ NextIssuedAfter(p)
            /\ IF polls'[p].messages # <<>>
               THEN onMessagesCalls' =
                       Append(onMessagesCalls,
                              [poll |-> p, messages |-> polls'[p].messages])
               ELSE onMessagesCalls' = onMessagesCalls]_vars

\* reached: the first poll brought two messages and the handler was called
\* with them, the second came back empty and the handler was not called,
\* the third is in flight and the status is connected
C21_Witness ==
    /\ HookEnabled
    /\ Len(polls) = 3
    /\ polls[1].state = "resolved" /\ polls[1].messages = <<1, 2>>
    /\ polls[2].state = "resolved" /\ polls[2].messages = <<>>
    /\ polls[3].state = "pending" /\ ~polls[3].aborted
    /\ onMessagesCalls = <<[poll |-> 1, messages |-> <<1, 2>>]>>
    /\ connectionStatus = "connected"
    /\ Len(loops) = 1


\* poll request p fails in this step, not by cancellation
Fails(p) ==
    /\ p \in DOMAIN polls
    /\ polls[p].state = "pending"
    /\ polls'[p].state = "rejected"
Sleeping(l) == l \in DOMAIN loops /\ loops[l].pc = "sleep"
OnlyLoop(l) == \A k \in DOMAIN loops : k # l => loops[k].pc = "done"

Cancelled(p) ==
    /\ p \in DOMAIN polls
    /\ polls[p].state = "pending"
    /\ polls'[p].state = "cancelled"

\* C23: a poll request that ends by cancellation stops the polling loop:
\* the call of poll() that issued it returns, the status is left as it was
\* (so it never becomes error because of it), nothing is retried (no
\* request is issued then and none by that call ever after) and the
\* message handler is not called
C23_CancellationStopsLoop ==
    /\ [][\A p \in DOMAIN polls :
            Cancelled(p) =>
               /\ loops'[polls[p].loop].pc = "done"
               /\ connectionStatus' = connectionStatus
               /\ hasConnectedOnce' = hasConnectedOnce
               /\ Len(polls') = Len(polls)
               /\ onMessagesCalls' = onMessagesCalls]_vars
    /\ [][\A l \in DOMAIN loops :
            loops[l].pc = "done" => loops'[l].pc = "done"]_vars
    /\ [](\A p \in DOMAIN polls :
            polls[p].state = "cancelled" =>
               /\ loops[polls[p].loop].pc = "done"
               /\ \A q \in DOMAIN polls :
                     polls[q].loop = polls[p].loop => q <= p)

\* reached: the effect ran again while the first request was in flight; the
\* aborted request ended as cancelled when the hook was active again, its
\* call of poll() returned, and only the second call is polling
C23_Witness ==
    /\ HookEnabled /\ isActive
    /\ Len(loops) = 2 /\ Len(polls) = 2
    /\ polls[1].state = "cancelled" /\ polls[1].loop = 1
    /\ loops[1].pc = "done"
    /\ polls[2].state = "pending" /\ polls[2].loop = 2
    /\ connectionStatus = "connecting"


\* the hook is disabled or unmounted in this step
Disabled == HookEnabled /\ ~HookEnabled'
InFlight(p) == p \in DOMAIN polls /\ polls[p].state = "pending"

\* C24: whenever the polling hook is disabled or unmounted, from
\* connecting, connected or error, the loop is marked inactive, the
\* in-flight poll request (if any) is aborted and the status becomes
\* disconnected; the status is disconnected whenever the hook is not
\* enabled
C24_DisableAbortsAndDisconnects ==
    /\ [][Disabled =>
            /\ isActive' = FALSE
            /\ connectionStatus' = "disconnected"
            /\ \A p \in DOMAIN polls : InFlight(p) => polls'[p].aborted]_vars
    /\ [](~HookEnabled => connectionStatus = "disconnected" /\ ~isActive)


\* ===================================================== browser cryptography
\* utils/crypto.js. A hex string is the sequence of its digits (0 .. 15) and
\* a byte array the sequence of its bytes. RSA-OAEP and AES-256-CBC are
\* ideal: a ciphertext opens with the matching key only.
HexDigits == 0 .. 15

\* hexToBytes(hex): parseInt(hex.substr(i * 2, 2), 16) for every pair
HexToBytes(hex) ==
    [i \in 1 .. (Len(hex) \div 2) |-> 16 * hex[2 * i - 1] + hex[2 * i]]

\* byte.toString(16)
ToString16(b) == IF b < 16 THEN <<b>> ELSE <<b \div 16, b % 16>>
\* s.padStart(2, '0')
PadStart2(s) == IF Len(s) < 2 THEN <<0>> \o s ELSE s

RECURSIVE BytesToHex_NoPad(_)
BytesToHex_NoPad(bytes) ==
    IF bytes = <<>> THEN <<>>
    ELSE ToString16(Head(bytes)) \o BytesToHex_NoPad(Tail(bytes))

\* bytesToHex(bytes)
RECURSIVE BytesToHex(_)
BytesToHex(bytes) ==
    IF bytes = <<>> THEN <<>>
    ELSE PadStart2(ToString16(Head(bytes))) \o BytesToHex(Tail(bytes))

\* CryptoJS.enc.Hex.parse(hex): the bytes of the hex string
HexParse(hex) == HexToBytes(hex)

\* arrayBufferToBase64 / base64ToArrayBuffer
ArrayBufferToBase64(buffer) == [base64 |-> buffer]
Base64ToArrayBuffer(text) == text.base64

\* the PEM texts of the key pair of user u; NoKey: no text stored
PublicKeyPem(u) == [pem |-> "PUBLIC KEY", pair |-> u]
PrivateKeyPem(u) == [pem |-> "PRIVATE KEY", pair |-> u]
NoKey == [pem |-> "", pair |-> 0]

Thrown == [ok |-> FALSE, value |-> <<>>]
Returned(v) == [ok |-> TRUE, value |-> v]

\* rsaEncrypt(publicKeyPem, data)
RsaEncrypt(publicKeyPem, data) ==
    ArrayBufferToBase64([rsa |-> publicKeyPem.pair, data |-> data])

\* rsaDecrypt(privateKeyPem, encryptedBase64): importKey rejects what is no
\* private key, decrypt rejects a ciphertext made for another key pair
RsaDecrypt(privateKeyPem, encryptedBase64) ==
    LET encrypted == Base64ToArrayBuffer(encryptedBase64) IN
    IF privateKeyPem.pem # "PRIVATE KEY" THEN Thrown
    ELSE IF encrypted.rsa # privateKeyPem.pair THEN Thrown
    ELSE Returned(encrypted.data)

\* aesEncrypt(plaintext, keyHex) with the IV drawn at random
AesEncrypt(plaintext, keyHex, iv) ==
    [encrypted |-> [aes |-> HexParse(keyHex), iv |-> iv, text |-> plaintext],
     iv |-> iv]

\* aesDecrypt(encryptedHex, ivHex, keyHex): with another key or IV the
\* result is not the text (an exception or other characters)
AesDecrypt(encryptedHex, ivHex, keyHex) ==
    IF HexParse(keyHex) = encryptedHex.aes /\ ivHex = encryptedHex.iv
    THEN Returned(encryptedHex.text)
    ELSE Thrown

\* the loop of encryptMessageForRecipients over the recipients
WrapKeys(recipients, aesKeyBytes) ==
    [i \in DOMAIN recipients |->
        [userId |-> recipients[i].userId,
         encryptedKey |-> RsaEncrypt(recipients[i].publicKey, aesKeyBytes)]]

\* encryptMessageForRecipients(plaintext, recipients), with the AES key
\* and the IV that were drawn
EncryptMessageForRecipients(plaintext, recipients, aesKeyHex, iv) ==
    LET e == AesEncrypt(plaintext, aesKeyHex, iv)
        aesKeyBytes == HexToBytes(aesKeyHex)
    IN  [encryptedContent |-> e.encrypted, iv |-> e.iv,
         keys |-> WrapKeys(recipients, aesKeyBytes)]

\* decryptMessage(encryptedContent, iv, encryptedKey, privateKeyPem)
DecryptMessage(encryptedContent, iv, encryptedKey, privateKeyPem) ==
    LET aesKeyBytes == RsaDecrypt(privateKeyPem, encryptedKey) IN
    IF ~aesKeyBytes.ok THEN Thrown
    ELSE AesDecrypt(encryptedContent, iv, BytesToHex(aesKeyBytes.value))

\* the inputs tried: plaintexts (the empty one too), recipient lists of one
\* to three users in any order, AES keys with bytes below and above 16
Plaintexts == {"", "hello", "[Unable to decrypt]"}
CryptoUsers == 1 .. 3
RecipientLists ==
    {r \in UNION {[1 .. n -> CryptoUsers] : n \in CryptoUsers} :
        \A i, j \in DOMAIN r : r[i] = r[j] => i = j}
Recipients(r) ==
    [i \in DOMAIN r |-> [userId |-> r[i], publicKey |-> PublicKeyPem(r[i])]]
AesKeys == {<<0, 0, 0, 10>>, <<15, 15, 1, 0>>, <<10, 11, 12, 13>>}
Ivs == {<<0, 1>>, <<15, 0>>}

\* sendMessage calls encryptMessageForRecipients
Encrypt(plaintext, r, aesKeyHex, iv) ==
    /\ sealed' = [plaintext |-> plaintext, recipients |-> Recipients(r),
                  out |-> EncryptMessageForRecipients(
                              plaintext, Recipients(r), aesKeyHex, iv)]
    /\ opened' = [by |-> 0]

\* decryptMsg of a recipient's tab calls decryptMessage with the wrapped key
\* the server hands it (the i-th) and the private key stored in the tab
Decrypt(i, privateKeyPem) ==
    /\ sealed.recipients # <<>>
    /\ i \in DOMAIN sealed.out.keys
    /\ opened' = [by |-> privateKeyPem.pair, key |-> i,
                  pem |-> privateKeyPem,
                  result |-> DecryptMessage(sealed.out.encryptedContent,
                                            sealed.out.iv,
                                            sealed.out.keys[i].encryptedKey,
                                            privateKeyPem)]
    /\ UNCHANGED sealed

\* a step of the cryptography module in a run of it alone
Pure(A) ==
    A /\ UNCHANGED server /\ UNCHANGED io /\ UNCHANGED poller
      /\ UNCHANGED session /\ UNCHANGED chat /\ UNCHANGED form
      /\ UNCHANGED composer

CryptoInit == Init /\ workers = {1}

CryptoNext ==
    \/ \E plaintext \in Plaintexts, r \in RecipientLists,
          aesKeyHex \in AesKeys, iv \in Ivs :
          Pure(Encrypt(plaintext, r, aesKeyHex, iv))
    \/ \E i \in CryptoUsers,
          k \in {PrivateKeyPem(u) : u \in CryptoUsers} \cup {NoKey} :
          Pure(Decrypt(i, k))

CryptoSpec == CryptoInit /\ [][CryptoNext]_vars

\* C30: hybrid round trip: for every plaintext and every non-empty
\* recipient list encryptMessageForRecipients produces one ciphertext and
\* one wrapped key per recipient, in the order of the list, such that
\* decryptMessage with any recipient's own wrapped key and own private key
\* returns the original plaintext, while with a private key that does not
\* match the wrapped key it fails instead of returning the plaintext
C30_HybridRoundTrip ==
    /\ sealed.recipients # <<>> =>
          /\ DOMAIN sealed.out.keys = DOMAIN sealed.recipients
          /\ \A i \in DOMAIN sealed.recipients :
                LET u == sealed.recipients[i].userId
                    open(k) == DecryptMessage(sealed.out.encryptedContent,
                                              sealed.out.iv,
                                              sealed.out.keys[i].encryptedKey,
                                              k)
                IN  /\ sealed.out.keys[i].userId = u
                    /\ open(PrivateKeyPem(u)) = Returned(sealed.plaintext)
                    /\ \A v \in CryptoUsers \ {u} :
                          ~open(PrivateKeyPem(v)).ok
                    /\ ~open(NoKey).ok
    /\ opened.by # 0 =>
          LET u == sealed.recipients[opened.key].userId IN
          IF opened.by = u
          THEN opened.result = Returned(sealed.plaintext)
          ELSE ~opened.result.ok

\* reached: a message for three recipients, encrypted under a key with
\* a leading zero byte, was opened by the third recipient with their own
\* wrapped key and private key
C30_Witness ==
    /\ Len(sealed.recipients) = 3
    /\ sealed.plaintext = "hello"
    /\ sealed.out.encryptedContent.aes = <<0, 10>>
    /\ opened.by = sealed.recipients[3].userId
    /\ opened.key = 3
    /\ opened.result = Returned("hello")


\* ================================================ credential store, session
\* utils/storage.js, services/api.js and context/AuthProvider.jsx. A slot of
\* localStorage holds a text, <<>> standing for an absent item (getItem
\* returns null). The user slot holds the JSON text of the profile.
Absent == <<>>
\* JSON.stringify(user) and JSON.parse(text); Malformed JSON makes parse throw
JsonStringify(user) == <<"json", user>>
MalformedJson == <<"{oops">>
JsonNull == <<"null">>
JsonParse(text) ==
    IF text = JsonNull THEN Returned(NoUser)
    ELSE IF Len(text) = 2 /\ text[1] = "json" THEN Returned(text[2])
    ELSE Thrown

\* getUser()
GetUser(store) ==
    IF store.user = Absent THEN NoUser
    ELSE LET parsed == JsonParse(store.user) IN
         IF parsed.ok THEN parsed.value ELSE NoUser

\* a clearAuth that leaves the private key in its slot
ClearAuth_KeepKey(store) ==
    [store EXCEPT !.token = Absent, !.user = Absent]

\* clearAuth(): removeToken, removeUser, removePrivateKey
ClearAuth(store) ==
    [store EXCEPT !.token = Absent, !.user = Absent, !.privateKey = Absent]

\* getInitialUser()
GetInitialUser(store) ==
    IF store.token # Absent /\ GetUser(store) # NoUser
    THEN GetUser(store) ELSE NoUser

\* what a closed tab may find stored: each slot absent or left by an
\* earlier session, the user slot possibly not JSON or the JSON null
Profiles == {[userId |-> 1, username |-> "alice"],
             [userId |-> 2, username |-> "bob"]}
SessionTokens == {<<"jwt-1">>, <<"jwt-2">>}
StoredBefore ==
    [token : {Absent} \cup SessionTokens,
     user : {Absent, MalformedJson, JsonNull}
               \cup {JsonStringify(u) : u \in Profiles},
     privateKey : {Absent, <<"pem">>}]

\* the page is opened on what an earlier session left in the store
Open(store) ==
    /\ tab = "closed"
    /\ localStorage' = store
    /\ userState' = GetInitialUser(store)
    /\ tab' = "loaded"
    /\ thrown' = 0

\* the reloaded tab starts: AuthProvider's state is initialised again
Reloaded ==
    /\ tab = "reloading"
    /\ userState' = GetInitialUser(localStorage)
    /\ tab' = "loaded"
    /\ thrown' = 0
    /\ UNCHANGED localStorage

\* login(token, userData)
login(token, userData) ==
    /\ tab = "loaded"
    /\ localStorage' = [localStorage EXCEPT !.token = token,
                                            !.user = JsonStringify(userData)]
    /\ userState' = userData
    /\ UNCHANGED <<tab, thrown>>

\* setPrivateKey(key), called by the forms after login or registration
SetPrivateKey(key) ==
    /\ tab = "loaded"
    /\ localStorage' = [localStorage EXCEPT !.privateKey = key]
    /\ UNCHANGED <<userState, tab, thrown>>

\* logout()
logout ==
    /\ tab = "loaded"
    /\ localStorage' = ClearAuth(localStorage)
    /\ userState' = NoUser
    /\ UNCHANGED <<tab, thrown>>

\* the statuses an API call ends with: 0 stands for no response at all
Statuses == {0, 200, 201, 400, 401, 403, 404, 409, 429, 500}
IsError(status) == status = 0 \/ status >= 400

\* an interceptor that clears the store on every 401 or 403
Interceptor_NoTokenCheck(store, status) ==
    IF status \in {401, 403}
    THEN [store |-> ClearAuth(store), reload |-> TRUE]
    ELSE [store |-> store, reload |-> FALSE]

\* the response interceptor's error handler, before it rejects
Interceptor(store, status) ==
    IF status \in {401, 403} /\ store.token # Absent
    THEN [store |-> ClearAuth(store), reload |-> TRUE]
    ELSE [store |-> store, reload |-> FALSE]

\* an API call of the tab ends with the status
ApiResponse(status) ==
    /\ tab = "loaded"
    /\ IF IsError(status)
       THEN LET i == Interceptor(localStorage, status) IN
            /\ localStorage' = i.store
            /\ tab' = IF i.reload THEN "reloading" ELSE tab
            /\ thrown' = IF status = 0 THEN 1 ELSE status
       ELSE /\ thrown' = 0
            /\ UNCHANGED <<localStorage, tab>>
    /\ UNCHANGED userState

\* a step of the session in a run of it alone
InTab(A) ==
    A /\ UNCHANGED server /\ UNCHANGED io /\ UNCHANGED poller
      /\ UNCHANGED crypt /\ UNCHANGED chat /\ UNCHANGED form
      /\ UNCHANGED composer

SessionInit == Init /\ workers = {1}

SessionNext ==
    \/ \E store \in StoredBefore : InTab(Open(store))
    \/ InTab(Reloaded)
    \/ \E token \in SessionTokens, userData \in Profiles :
          InTab(login(token, userData))
    \/ InTab(SetPrivateKey(<<"pem">>))
    \/ InTab(logout)
    \/ \E status \in Statuses : InTab(ApiResponse(status))

SessionSpec == SessionInit /\ [][SessionNext]_vars


\* --------------------------------------------------- claims on the session
NothingStored == [token |-> Absent, user |-> Absent, privateKey |-> Absent]

\* C28: when an API response is 401 or 403 while a token is stored, the
\* token, user-profile and private-key slots are all cleared and a page
\* reload is forced; when no token is stored a 401 or 403 leaves the
\* credential store unchanged and forces no reload; in both cases the error
\* is still propagated to the caller
C28_RejectedTokenClearsAndReloads ==
    [][\A status \in {401, 403} :
         ApiResponse(status) =>
            /\ thrown' = status
            /\ IF localStorage.token # Absent
               THEN localStorage' = NothingStored /\ tab' = "reloading"
               ELSE localStorage' = localStorage /\ tab' = "loaded"]_vars

\* reached: a logged-in tab with all three slots filled got a 403: the
\* store is empty, the reload is under way and the caller got the error
C28_Witness ==
    /\ tab = "reloading"
    /\ thrown = 403
    /\ localStorage = NothingStored
    /\ userState \in Profiles

\* C29: after logout() the session state is logged out and the token,
\* user-profile and private-key slots are all absent; after
\* login(token, user) the state is that user and both token and profile are
\* stored; a fresh start hydrates a logged-in state exactly when both a
\* token and a parsable user profile are stored, and then to that profile
C29_LoginLogoutHydrate ==
    /\ [][logout => userState' = NoUser /\ localStorage' = NothingStored]_vars
    /\ [][\A token \in SessionTokens, userData \in Profiles :
            login(token, userData) =>
               /\ userState' = userData
               /\ localStorage'.token = token
               /\ JsonParse(localStorage'.user) = Returned(userData)
               /\ localStorage'.privateKey = localStorage.privateKey]_vars
    /\ [][(tab # "loaded" /\ tab' = "loaded") =>
            LET parsed == JsonParse(localStorage'.user)
                profile == /\ localStorage'.user # Absent
                           /\ parsed.ok
                           /\ parsed.value \in Profiles
            IN  /\ (userState' # NoUser) <=>
                      (localStorage'.token # Absent /\ profile)
                /\ userState' # NoUser => userState' = parsed.value]_vars

\* reached: a login was rejected with 401 while nothing was stored, and the
\* login that followed stored the token and bob's profile and made bob the
\* session's user
C29_Witness ==
    /\ tab = "loaded"
    /\ thrown = 401
    /\ userState = [userId |-> 2, username |-> "bob"]
    /\ localStorage.token = <<"jwt-2">>
    /\ localStorage.user = JsonStringify(userState)
    /\ localStorage.privateKey = Absent

\* ------------------------------------------------------------------
\* The chat page: useMessages (frontend/src/hooks/useMessages.js) with
\* the polling hook it embeds
\* ------------------------------------------------------------------

\* the user of the tab
ChatUser == [userId |-> 1, username |-> "alice"]
ChatTexts == <<"hello", "again", "bye">>

\* message id as the server hands it to the tab: sent by bob, its AES key
\* wrapped with the public key of user `to`
Wire(id, to) ==
    LET e == EncryptMessageForRecipients(ChatTexts[id], Recipients(<<to>>),
                                         <<0, 0, 0, 10>>, <<0, 1>>)
    IN  [id |-> id, senderId |-> 2, senderUsername |-> "bob",
         encryptedContent |-> e.encryptedContent, iv |-> e.iv,
         encryptedKey |-> e.keys[1].encryptedKey, createdAt |-> 100 + id]

\* getPrivateKey(): the PEM text stored by the login of the tab's user
GetPrivateKey(store) ==
    IF store.privateKey = Absent THEN NoKey
    ELSE PrivateKeyPem(ChatUser.userId)

Entry(msg, content) ==
    [id |-> msg.id, senderId |-> msg.senderId,
     senderUsername |-> msg.senderUsername, content |-> content,
     createdAt |-> msg.createdAt]

\* a decryptMsg without its catch block
DecryptMsg_NoCatch(msg, privateKey) ==
    LET content == DecryptMessage(msg.encryptedContent, msg.iv,
                                  msg.encryptedKey, privateKey)
    IN  IF content.ok THEN Returned(Entry(msg, content.value)) ELSE Thrown

\* decryptMsg(msg, privateKey)
DecryptMsg(msg, privateKey) ==
    LET content == DecryptMessage(msg.encryptedContent, msg.iv,
                                  msg.encryptedKey, privateKey)
    IN  IF content.ok THEN Returned(Entry(msg, content.value))
        ELSE Returned(Entry(msg, "[Unable to decrypt]"))

IdsOf(list) == {list[i].id : i \in DOMAIN list}

\* the updater handleNewMessages gives to setMessages
AppendUnique(prev, decryptedNew) ==
    LET existingIds == IdsOf(prev)
        unique == SelectSeq(decryptedNew, LAMBDA m : m.id \notin existingIds)
    IN  IF Len(unique) = 0 THEN prev ELSE prev \o unique

\* data.messages.reverse()
ReverseList(list) == [i \in DOMAIN list |-> list[Len(list) + 1 - i]]

\* a hook that is enabled whatever the loading state
PollingEnabled_Always(isLoading) == TRUE
\* the enabled argument useMessages gives to useLongPolling
PollingEnabled(isLoading) == ~isLoading

\* the render that follows a change of the loading state, and the effect of
\* the polling hook; an unmounted component renders no more
Render(isLoading) ==
    IF mount = "yes" /\ PollingEnabled(isLoading) # enabled
    THEN SetEnabled(PollingEnabled(isLoading))
    ELSE UNCHANGED poller

\* the end of init(): the catch block if it is given an error, and the
\* finally block; React drops the state updates of an unmounted component
InitFinally(err) ==
    /\ initPc' = "done"
    /\ IF mount = "yes"
       THEN loadError' = err /\ loading' = FALSE
       ELSE UNCHANGED <<loadError, loading>>
    /\ Render(FALSE)

NewBatch(kind, input, store) ==
    [kind |-> kind, input |-> input, out |-> <<>>,
     state |-> IF input = <<>> THEN "committed" ELSE "decrypting",
     key |-> GetPrivateKey(store)]

\* the tab opens on a logged-in session
ChatOpen(store) ==
    /\ Open(store)
    /\ UNCHANGED <<poller, chat>>

\* the first render of the chat page: the effect of useMessages starts
\* init(), the effect of the polling hook runs with enabled = !loading
ChatMount ==
    /\ tab = "loaded"
    /\ userState # NoUser
    /\ initPc = "idle"
    /\ Mount(PollingEnabled(loading))
    /\ initPc' = "keys"
    /\ UNCHANGED <<loading, loadError, rendered, batches, session>>

\* getAllPublicKeys() resolved
KeysLoaded ==
    /\ initPc = "keys"
    /\ initPc' = "history"
    /\ UNCHANGED <<loading, loadError, rendered, batches, poller, session>>

\* getAllPublicKeys() or getHistory() rejected
FetchFailed ==
    /\ initPc \in {"keys", "history"}
    /\ InitFinally("Failed to load messages")
    /\ UNCHANGED <<rendered, batches, session>>

\* getHistory(1, 100) resolved with a page, newest message first
HistoryLoaded(list) ==
    /\ initPc = "history"
    /\ LET reversed == ReverseList(list) IN
       /\ batches' = Append(batches,
                            NewBatch("history", reversed, localStorage))
       /\ IF reversed = <<>>
          THEN /\ rendered' = IF mount = "yes" THEN <<>> ELSE rendered
               /\ InitFinally(loadError)
          ELSE /\ initPc' = "decrypt"
               /\ UNCHANGED <<loading, loadError, rendered, poller>>
    /\ UNCHANGED session

\* a decryptMsg of batch b resolved: the next message is given to
\* decryptMsg, or the loop is over and the list goes to setMessages
DecryptStep(b) ==
    /\ b \in DOMAIN batches
    /\ batches[b].state = "decrypting"
    /\ LET B == batches[b]
           r == DecryptMsg(B.input[Len(B.out) + 1], B.key)
           out == Append(B.out, r.value)
       IN  IF ~r.ok
           THEN /\ batches' = [batches EXCEPT ![b].state = "failed"]
                /\ UNCHANGED rendered
                /\ IF B.kind = "history"
                   THEN InitFinally("Failed to load messages")
                   ELSE UNCHANGED <<loading, loadError, initPc, poller>>
           ELSE IF Len(out) < Len(B.input)
           THEN /\ batches' = [batches EXCEPT ![b].out = out]
                /\ UNCHANGED <<loading, loadError, rendered, initPc, poller>>
           ELSE /\ batches' = [batches EXCEPT ![b].out = out,
                                              ![b].state = "committed"]
                /\ IF B.kind = "history"
                   THEN /\ rendered' = IF mount = "yes" THEN out
                                       ELSE rendered
                        /\ InitFinally(loadError)
                   ELSE /\ rendered' = IF mount = "yes"
                                       THEN AppendUnique(rendered, out)
                                       ELSE rendered
                        /\ UNCHANGED <<loading, loadError, initPc, poller>>
    /\ UNCHANGED session

\* a poll resolved: the hook goes on, and if it called handleNewMessages
\* the list is on its way through decryption
ChatPollResolved(l, list) ==
    /\ PollResolved(l, list)
    /\ IF Len(onMessagesCalls') > Len(onMessagesCalls)
       THEN /\ Len(batches) < MaxBatches
            /\ batches' = Append(batches, NewBatch("poll", list, localStorage))
       ELSE UNCHANGED batches
    /\ UNCHANGED <<loading, loadError, rendered, initPc, session>>

\* the pages of history and the poll lists the server answers with;
\* message 2 is wrapped for another key pair
HistoryPages == {<<>>, <<Wire(1, 1)>>, <<Wire(2, 3), Wire(1, 1)>>}
ChatPollLists == {<<>>, <<Wire(1, 1)>>, <<Wire(2, 3), Wire(3, 1)>>,
                  <<Wire(3, 1)>>}
ChatStores ==
    {s \in StoredBefore : /\ s.token = <<"jwt-1">>
                          /\ s.user = JsonStringify(ChatUser)}

\* a step of the chat page
InChat(A) ==
    A /\ UNCHANGED server /\ UNCHANGED io /\ UNCHANGED crypt
      /\ UNCHANGED form /\ UNCHANGED composer
\* a step of the polling hook inside the chat page
InHook(A) == InChat(A) /\ UNCHANGED session /\ UNCHANGED chat

ChatInit == Init /\ workers = {1}

ChatNext ==
    \/ \E store \in ChatStores : InChat(ChatOpen(store))
    \/ InChat(ChatMount)
    \/ InChat(KeysLoaded)
    \/ InChat(FetchFailed)
    \/ \E list \in HistoryPages : InChat(HistoryLoaded(list))
    \/ \E b \in 1 .. MaxBatches : InChat(DecryptStep(b))
    \/ \E l \in 1 .. MaxLoops, list \in ChatPollLists :
          InChat(ChatPollResolved(l, list))
    \/ \E l \in 1 .. MaxLoops : InHook(PollRejected(l))
    \/ \E l \in 1 .. MaxLoops : InHook(PollCancelled(l))
    \/ InHook(Tick)
    \/ \E l \in 1 .. MaxLoops : InHook(Wake(l))
    \/ InHook(Unmount)

ChatSpec == ChatInit /\ [][ChatNext]_vars

\* ---- claims about the chat page ----

LoadFinished == initPc = "done"
PollInFlight == \E p \in DOMAIN polls : polls[p].state = "pending"

\* C25: no poll request is issued before the initial load of the public
\* keys and the history has finished, with a list or with a load failure:
\* up to that moment the hook has started no loop and issued no request;
\* the step that finishes the load enables the hook of the mounted page and
\* issues the first poll request, and the hook stays enabled for as long as
\* the page is mounted
C25_NoPollBeforeInitialLoad ==
    /\ [](~LoadFinished =>
            /\ polls = <<>>
            /\ loops = <<>>
            /\ ~enabled
            /\ onMessagesCalls = <<>>)
    /\ [][(~LoadFinished /\ LoadFinished' /\ mount = "yes") =>
            /\ enabled' /\ isActive'
            /\ Len(polls') = 1
            /\ polls'[1].state = "pending"
            /\ ~loading']_vars
    /\ []((LoadFinished /\ mount = "yes") => enabled /\ ~loading)

\* reached: the history request failed, the page shows the load failure,
\* and the first poll request is in flight
C25_Witness ==
    /\ LoadFinished
    /\ mount = "yes"
    /\ loadError = "Failed to load messages"
    /\ rendered = <<>>
    /\ batches = <<>>
    /\ enabled
    /\ Len(polls) = 1
    /\ PollInFlight
    /\ connectionStatus = "connecting"

\* the wrapped key of msg opens with the private key
Decryptable(msg, privateKey) ==
    /\ privateKey.pem = "PRIVATE KEY"
    /\ Base64ToArrayBuffer(msg.encryptedKey).rsa = privateKey.pair

\* the entry that has to be rendered for msg
Expected(msg, privateKey) ==
    [id |-> msg.id, senderId |-> msg.senderId,
     senderUsername |-> msg.senderUsername,
     content |-> IF Decryptable(msg, privateKey) THEN ChatTexts[msg.id]
                 ELSE "[Unable to decrypt]",
     createdAt |-> msg.createdAt]

Commits(b) ==
    /\ b \in DOMAIN batches
    /\ batches[b].state = "decrypting"
    /\ batches'[b].state = "committed"

\* C27: decrypting a batch, of history or of a poll, yields one entry per
\* message in the order of the batch: the plaintext for a message whose
\* wrapped key opens with the stored private key, and for any other message
\* the content "[Unable to decrypt]" with the id, sender and timestamp of
\* the message; no batch is abandoned, a loaded history never sets the load
\* error and no batch changes it, the history batch becomes the rendered
\* list as a whole and after a poll batch every message of it is in the
\* rendered list
C27_UndecryptableBecomesPlaceholder ==
    /\ [](\A b \in DOMAIN batches :
            LET B == batches[b] IN
            /\ B.state # "failed"
            /\ Len(B.out) <= Len(B.input)
            /\ B.state = "committed" => Len(B.out) = Len(B.input)
            /\ \A i \in DOMAIN B.out : B.out[i] = Expected(B.input[i], B.key)
            /\ B.kind = "history" => loadError = "")
    /\ [][\A b \in 1 .. MaxBatches :
            (Commits(b) /\ mount = "yes") =>
               LET B == batches'[b] IN
               /\ B.kind = "history" => rendered' = B.out
               /\ IdsOf(B.input) \subseteq IdsOf(rendered')
               /\ \A i \in DOMAIN B.out :
                     B.out[i].id \notin IdsOf(rendered) =>
                        \E k \in DOMAIN rendered' : rendered'[k] = B.out[i]
               /\ loadError' = loadError]_vars

\* reached: the history of two messages and a poll batch of two messages
\* were rendered; message 2, wrapped for another key pair, shows the
\* placeholder between the plaintexts of messages 1 and 3
C27_Witness ==
    /\ mount = "yes"
    /\ loadError = ""
    /\ Len(rendered) = 3
    /\ rendered[1].content = "hello"
    /\ rendered[2] = [id |-> 2, senderId |-> 2, senderUsername |-> "bob",
                      content |-> "[Unable to decrypt]", createdAt |-> 102]
    /\ rendered[3].content = "bye"
    /\ \E b \in DOMAIN batches :
          batches[b].kind = "poll" /\ batches[b].state = "committed"

PollBatches == {b \in DOMAIN batches : batches[b].kind = "poll"}
Polled == UNION {IdsOf(batches[b].input) : b \in PollBatches}
FromHistory ==
    UNION {IdsOf(batches[b].input) :
              b \in {h \in DOMAIN batches : batches[h].kind = "history"}}
\* the poll batch that brought id first, and its place in that batch
FirstBatch(id) ==
    CHOOSE b \in PollBatches :
        /\ id \in IdsOf(batches[b].input)
        /\ \A c \in PollBatches : id \in IdsOf(batches[c].input) => b <= c
FirstPlace(id) ==
    LET input == batches[FirstBatch(id)].input IN
    CHOOSE i \in DOMAIN input :
        /\ input[i].id = id
        /\ \A k \in DOMAIN input : input[k].id = id => i <= k
ArrivedBefore(x, y) ==
    \/ FirstBatch(x) < FirstBatch(y)
    \/ FirstBatch(x) = FirstBatch(y) /\ FirstPlace(x) <= FirstPlace(y)

\* a decrypted poll batch is appended without the messages whose id is in
\* the rendered list, in the order of the batch
DedupOnCommit ==
    [][\A b \in 1 .. MaxBatches :
         (Commits(b) /\ batches[b].kind = "poll" /\ mount = "yes") =>
            LET out == batches'[b].out
                kept == {i \in DOMAIN out : out[i].id \notin IdsOf(rendered)}
            IN  /\ Len(rendered') = Len(rendered) + Cardinality(kept)
                /\ \A k \in DOMAIN rendered : rendered'[k] = rendered[k]
                /\ \A i \in kept :
                      rendered'[Len(rendered)
                                + Cardinality({k \in kept : k <= i})] = out[i]
       ]_vars

\* the messages brought by polls stand in the rendered list in the order
\* they arrived
ArrivalOrder ==
    \A i, j \in DOMAIN rendered :
        (/\ i < j
         /\ {rendered[i].id, rendered[j].id} \subseteq Polled \ FromHistory)
        => ArrivedBefore(rendered[i].id, rendered[j].id)

\* C26: for any sequence of poll batches the messages whose id is in the
\* rendered list are dropped and the others are appended in the order they
\* arrived, also when a later batch arrives while an earlier one is still
\* being decrypted
C26_UniqueSurvivorsInArrivalOrder == DedupOnCommit /\ []ArrivalOrder

\* ---- more claims about the polling hook ----

\* at most one call of poll() has not returned
OneLoop == Cardinality({l \in DOMAIN loops : loops[l].pc # "done"}) <= 1

LiveRequests ==
    {p \in DOMAIN polls : polls[p].state = "pending" /\ ~polls[p].aborted}
\* the calls of poll() that are running: waiting for the answer to a
\* request that was not aborted, or inside the retry delay
RunningLoops ==
    {l \in DOMAIN loops :
        \/ loops[l].pc = "sleep"
        \/ loops[l].pc = "request" /\ ~polls[loops[l].req].aborted}

\* C37: a polling hook never has more than one poll loop running or more
\* than one poll request in flight, for any sequence of enable, disable
\* and re-enable
C37_AtMostOneLoopAndRequest ==
    /\ Cardinality(RunningLoops) <= 1
    /\ Cardinality(LiveRequests) <= 1

\* the part of C37 about requests alone
AtMostOneLiveRequest == Cardinality(LiveRequests) <= 1

\* poll request p is answered in this step: with data, a failure or its
\* cancellation
Answered(p) ==
    /\ p \in DOMAIN polls
    /\ polls[p].state = "pending"
    /\ polls'[p].state # "pending"

\* C38: once the hook has been disabled or unmounted, a poll response, a
\* failure or a cancellation that arrives changes nothing: the status
\* stays disconnected, the message handler is not called, no request is
\* issued and no retry scheduled (the call of poll() returns); a retry
\* delay that ends then issues no request either
C38_LateAnswerChangesNothing ==
    /\ [][\A p \in DOMAIN polls :
            (~HookEnabled /\ Answered(p)) =>
               /\ connectionStatus = "disconnected"
               /\ connectionStatus' = "disconnected"
               /\ onMessagesCalls' = onMessagesCalls
               /\ Len(polls') = Len(polls)
               /\ loops'[polls[p].loop].pc = "done"
               /\ hasConnectedOnce' = hasConnectedOnce
               /\ isActive' = isActive]_vars
    /\ [][\A l \in DOMAIN loops :
            (~HookEnabled /\ Sleeping(l) /\ loops'[l].pc # "sleep") =>
               /\ loops'[l].pc = "done"
               /\ Len(polls') = Len(polls)
               /\ connectionStatus' = "disconnected"]_vars

\* reached: the hook was disabled while a request was in flight that the
\* cleanup did not abort; the request was answered with messages, the
\* handler was never called and the status is disconnected
C38_Witness ==
    /\ mount = "yes" /\ ~enabled
    /\ connectionStatus = "disconnected"
    /\ onMessagesCalls = <<>>
    /\ \E p \in DOMAIN polls :
          /\ polls[p].state = "resolved"
          /\ polls[p].messages # <<>>
          /\ loops[polls[p].loop].pc = "done"
    /\ \E p \in DOMAIN polls : polls[p].state = "cancelled"

\* ------------------------------------------------------------------
\* The registration form (frontend/src/components/Auth/RegisterForm.jsx)
\* and the validators of frontend/src/utils/validation.js. A field is the
\* sequence of the characters typed
\* ------------------------------------------------------------------

\* VALIDATION_RULES of the client
ClientRules ==
    [username |-> [minLength |-> 3, maxLength |-> 30],
     password |-> [minLength |-> 6]]

\* the characters String.prototype.trim removes, as far as they are typed
Whitespace == {" ", "\t"}

RECURSIVE TrimStart(_)
TrimStart(value) ==
    IF value # <<>> /\ Head(value) \in Whitespace
    THEN TrimStart(Tail(value)) ELSE value
RECURSIVE TrimEnd(_)
TrimEnd(value) ==
    IF value # <<>> /\ value[Len(value)] \in Whitespace
    THEN TrimEnd(SubSeq(value, 1, Len(value) - 1)) ELSE value
\* value.trim()
Trim(value) == TrimEnd(TrimStart(value))

\* a validateUsername that tests the value as typed
ValidateUsername_AsTyped(value) ==
    IF value = <<>> THEN "username.required"
    ELSE IF Len(value) < ClientRules.username.minLength
    THEN "username.tooShort"
    ELSE IF Len(value) > ClientRules.username.maxLength
    THEN "username.tooLong"
    ELSE ""

\* validateUsername(value): the error, or "" for null
ValidateUsername(value) ==
    LET trimmed == Trim(value) IN
    IF trimmed = <<>> THEN "username.required"
    ELSE IF Len(trimmed) < ClientRules.username.minLength
    THEN "username.tooShort"
    ELSE IF Len(trimmed) > ClientRules.username.maxLength
    THEN "username.tooLong"
    ELSE ""

\* validatePassword(value)
ValidatePassword(value) ==
    IF value = <<>> THEN "password.required"
    ELSE IF Len(value) < ClientRules.password.minLength
    THEN "password.tooShort"
    ELSE ""

\* validateConfirmPassword(value, password)
ValidateConfirmPassword(value, password) ==
    IF value = <<>> THEN "confirmPassword.required"
    ELSE IF value # password THEN "confirmPassword.mismatch"
    ELSE ""

\* validateAll(formData) with the schema of the form; "" for no entry
ValidateAll(data) ==
    [username |-> ValidateUsername(data.username),
     password |-> ValidatePassword(data.password),
     confirmPassword |->
        ValidateConfirmPassword(data.confirmPassword, data.password)]
NoErrors == [username |-> "", password |-> "", confirmPassword |-> ""]

\* the string a field's characters make in the JSON body
RECURSIVE Join(_)
Join(value) == IF value = <<>> THEN "" ELSE Head(value) \o Join(Tail(value))

\* the body registerApi posts: the fields as typed, and the key material
RegisterBody(username, password) ==
    [username |-> Join(username), password |-> Join(password),
     publicKey |-> TRUE, encryptedPrivateKey |-> TRUE,
     encryptedPrivateKeyIv |-> TRUE]

\* POST /register down to the call of registerUser: 400, or 200 for a body
\* that passes the checks
Posted(username, password) ==
    LET v == RegisterValidation(RegisterBody(username, password)) IN
    [sent |-> TRUE, username |-> username, password |-> password,
     status |-> v.status, error |-> v.error]

\* the texts tried: names of 0, 2, 3, 30 and 31 characters alone, with a
\* space before or after, a name with a space inside, blanks only
Letters(n) == [i \in 1 .. n |-> "a"]
TypedNames ==
    {l \o c \o r :
        l \in {<<>>, <<" ">>},
        c \in {Letters(n) : n \in {0, 2, 3, 30, 31}} \cup {<<"a", " ", "b">>},
        r \in {<<>>, <<" ">>, <<" ", "\t", " ">>}}
TypedPasswords ==
    {<<>>, <<"1", "2", "3", "4", "5">>, <<"1", "2", "3", "4", "5", "6">>,
     <<" ", " ", " ", " ", " ", " ">>}

\* handleChange for the fields of the form
FormType(username, password, confirmPassword) ==
    /\ formData' = [username |-> username, password |-> password,
                    confirmPassword |-> confirmPassword]
    /\ fieldErrors' = NoErrors
    /\ posted' = [sent |-> FALSE]

\* handleSubmit: the errors are shown, or the fields are posted as typed
FormSubmit ==
    LET errors == ValidateAll(formData) IN
    /\ ~posted.sent
    /\ fieldErrors = NoErrors
    /\ IF errors # NoErrors
       THEN fieldErrors' = errors /\ UNCHANGED posted
       ELSE /\ posted' = Posted(formData.username, formData.password)
            /\ UNCHANGED fieldErrors
    /\ UNCHANGED formData

\* a POST /register that does not come from the form
DirectPost(username, password) ==
    /\ posted' = Posted(username, password)
    /\ formData' = [username |-> <<>>, password |-> <<>>,
                    confirmPassword |-> <<>>]
    /\ fieldErrors' = NoErrors

\* a step of the form in a run of it alone
InForm(A) ==
    A /\ UNCHANGED server /\ UNCHANGED io /\ UNCHANGED poller
      /\ UNCHANGED crypt /\ UNCHANGED session /\ UNCHANGED chat
      /\ UNCHANGED composer

FormInit == Init /\ workers = {1}

FormNext ==
    \/ \E username \in TypedNames, password \in TypedPasswords,
          confirmPassword \in TypedPasswords :
          InForm(FormType(username, password, confirmPassword))
    \/ InForm(FormSubmit)
    \/ \E username \in TypedNames, password \in TypedPasswords :
          InForm(DirectPost(username, password))

FormSpec == FormInit /\ [][FormNext]_vars

\* C32: client and server enforce the same username and password
\* constraints: a pair that passes validateUsername and validatePassword
\* and is posted by the form as typed passes the server's presence and
\* length checks, and a pair that passes the server's checks passes the
\* two client validators
C32_ClientAndServerAgree ==
    posted.sent =>
       ((posted.status = 200) <=>
           /\ ValidateUsername(posted.username) = ""
           /\ ValidatePassword(posted.password) = "")

\* the first direction alone: what the form posts, the server's checks pass
FormPostsPass ==
    (posted.sent /\ formData.username # <<>>) => posted.status = 200
\* the second direction alone
ServerPassImpliesClientPass ==
    (posted.sent /\ posted.status = 200) =>
       /\ ValidateUsername(posted.username) = ""
       /\ ValidatePassword(posted.password) = ""
\* the two layers agree on names typed without blanks around them
AgreeOnTrimmedNames ==
    (posted.sent /\ Trim(posted.username) = posted.username) =>
       ((posted.status = 200) <=>
           /\ ValidateUsername(posted.username) = ""
           /\ ValidatePassword(posted.password) = "")

\* ------------------------------------------------------------------
\* The waiting registry with every operation the service exports:
\* removePollingClient has no caller in the routes, here any process may
\* call it for any user at any time
\* ------------------------------------------------------------------

\* a call of removePollingClient(userId) on process w
RemoveClient(w, u) ==
    /\ Ready(w)
    /\ waitingClients[w][u] # NoClient
    /\ LET o == RemovePollingClient(waitingClients[w], timers[w], u) IN
       /\ waitingClients' = [waitingClients EXCEPT ![w] = o.waitingClients]
       /\ timers' = [timers EXCEPT ![w] = o.timers]
    /\ UNCHANGED <<users, messages, deliveries, workers, cur, resp, handed,
                   pollReturns, submitted>>

RegistryNext ==
    \/ Next
    \/ \E w \in WorkerIds, u \in UserIds : Quiet(RemoveClient(w, u))

\* one process: a registry, its timers and the responses it holds belong
\* to the process that registered them
RegistryInit == Init /\ workers = {1}

RegistrySpec == RegistryInit /\ [][RegistryNext]_vars

\* the response objects that are or were registered as waiting: held ones
\* past their registration, and answered ones (a poll answered from the
\* store is answered before it could be registered)
WasRegistered(r) ==
    \/ resp[r].state = "answered"
    \/ /\ resp[r].state = "held"
       /\ waitingClients[resp[r].worker][resp[r].userId].res = r

\* C33: every held poll response is written at most once: res.json is
\* called at most once on a response object that was registered as
\* waiting, whatever the interleaving of broadcasts, timer expiries,
\* superseding polls, closed connections and calls of removePollingClient;
\* an answered response is never written again, and a step writes a
\* response only if it was held and unwritten before
C33_HeldResponseWrittenAtMostOnce ==
    /\ [](\A r \in ResIds : resp[r].writes <= 1)
    /\ [](\A r \in ResIds :
            resp[r].state = "answered" =>
               /\ resp[r].writes = 1
               /\ \A w \in WorkerIds :
                     /\ \A u \in UserIds : waitingClients[w][u].res # r
                     /\ \A t \in timers[w] : t.res # r)
    /\ [][\A r \in ResIds :
            (resp[r].state = "answered" /\ resp'[r].state = "answered") =>
               resp'[r] = resp[r]]_vars

\* reached: a user's first poll was superseded, answered once with the
\* empty list and not written since, while the superseding poll is held,
\* unwritten, with the registry entry and the one armed timer
C33_Witness ==
    \E r1, r2 \in ResIds :
       /\ resp[r1].state = "answered" /\ resp[r1].by = "superseded"
       /\ resp[r1].writes = 1 /\ resp[r1].body = <<>>
       /\ resp[r2].state = "held" /\ resp[r2].writes = 0
       /\ resp[r2].userId = resp[r1].userId
       /\ waitingClients[1][resp[r2].userId].res = r2
       /\ \E t \in timers[1] : t.res = r2
       /\ Len(messages) > 0

\* the timers armed for the entry of user u on process w
EntryTimers(w, u) ==
    {t \in timers[w] : /\ t.userId = u
                       /\ t.id = waitingClients[w][u].timeout
                       /\ t.res = waitingClients[w][u].res}
\* C34: registry and timers stay in one-to-one correspondence: every
\* waiting entry has exactly one armed timer, which is the one its
\* registration armed, every armed timer belongs to the current entry of
\* its user (none to an entry that was removed or replaced), and a timer
\* that expires removes the entry of the registration that armed it and
\* answers that registration's response, leaving every other entry, timer
\* and response as it was
C34_RegistryAndTimersCorrespond ==
    /\ [](\A w \in WorkerIds :
            /\ \A u \in UserIds :
                  waitingClients[w][u] # NoClient =>
                     /\ Cardinality(EntryTimers(w, u)) = 1
                     /\ Cardinality({t \in timers[w] : t.userId = u}) = 1
            /\ \A t \in timers[w] :
                  /\ waitingClients[w][t.userId] # NoClient
                  /\ waitingClients[w][t.userId].timeout = t.id
                  /\ waitingClients[w][t.userId].res = t.res
                  /\ resp[t.res].state = "held"
                  /\ resp[t.res].userId = t.userId)
    /\ [][\A w \in WorkerIds : \A t \in timers[w] :
            TimerFire(w, t) =>
               /\ waitingClients[w][t.userId].res = t.res
               /\ waitingClients'[w][t.userId] = NoClient
               /\ resp'[t.res].state = "answered"
               /\ resp'[t.res].body = <<>>
               /\ timers'[w] = timers[w] \ {t}
               /\ \A u \in UserIds \ {t.userId} :
                     waitingClients'[w][u] = waitingClients[w][u]
               /\ \A r \in ResIds \ {t.res} : resp'[r] = resp[r]]_vars

\* reached: after a message was sent two users wait on one process, each
\* entry with its own armed timer and its own response object
C34_Witness ==
    /\ \A u \in UserIds :
          /\ waitingClients[1][u] # NoClient
          /\ Cardinality(EntryTimers(1, u)) = 1
    /\ Cardinality(timers[1]) = 2
    /\ waitingClients[1][1].res # waitingClients[1][2].res
    /\ Len(messages) > 0


\* ---------------------------------------------------------------- C35
HasUndelivered(u) ==
    \E i \in 1 .. Len(deliveries) :
        deliveries[i].user_id = u /\ ~deliveries[i].delivered

Waiting(w, u) == waitingClients[w][u] # NoClient

\* C35: in a single server process, whenever no request is being handled,
\* a user with an entry in the registry has no undelivered delivery row;
\* and the broadcast that ends a send leaves each waiting user whose
\* connection is writable either answered with the new message and its
\* row delivered, or still waiting with no row of that message (the
\* sender's own row is delivered already).
C35_WaitingUserHasNoUndeliveredRow ==
    /\ [](\A w \in workers :
            cur[w] = Idle =>
               \A u \in DOMAIN waitingClients[w] :
                  Waiting(w, u) => ~HasUndelivered(u))
    /\ [][\A w \in WorkerIds :
            SendBroadcastStep(w) =>
               LET h == cur[w] IN
               \A u \in DOMAIN waitingClients[w] :
                  LET e == waitingClients[w][u] IN
                  (e # NoClient /\ resp[e.res].state = "held") =>
                     \/ /\ waitingClients'[w][u] = e
                        /\ resp'[e.res] = resp[e.res]
                        /\ \A i \in RowsOf(h.messageId, u) :
                              deliveries'[i].delivered
                        /\ u # h.userId => RowsOf(h.messageId, u) = {}
                     \/ /\ u # h.userId
                        /\ waitingClients'[w][u] = NoClient
                        /\ resp'[e.res].state = "answered"
                        /\ Len(resp'[e.res].body) = 1
                        /\ resp'[e.res].body[1].id = h.messageId
                        /\ RowsOf(h.messageId, u) # {}
                        /\ \A i \in RowsOf(h.messageId, u) :
                              deliveries'[i].delivered]_vars

\* no send has been answered 500 after storing part of its rows
NoSendFailed == \A m \in 1 .. Len(submitted) : submitted[m].status # 500

\* the same statement for the runs in which every insert of a delivery row
\* is accepted by the store
WaitingUserHasNoUndeliveredRow_NoSendFailed ==
    [](NoSendFailed =>
         \A w \in workers :
            cur[w] = Idle =>
               \A u \in DOMAIN waitingClients[w] :
                  Waiting(w, u) => ~HasUndelivered(u))


\* ---------------------------------------------------------------- C36
\* C36: a delivery row of a recipient other than the sender is marked
\* delivered only when a response carrying its message was written to
\* that recipient, on the poll-fetch path and on the broadcast path; a
\* failed write leaves no row marked for a message that was not handed
\* over.
C36_DeliveredOnlyAfterSuccessfulWrite ==
    \A i \in 1 .. Len(deliveries) :
        (deliveries[i].delivered
            /\ ~OwnMessage(deliveries[i].message_id, deliveries[i].user_id))
        => HandedTo(deliveries[i].message_id, deliveries[i].user_id)

\* the same statement for the rows marked by a broadcast alone
MarkedByBroadcastWasWritten ==
    [][\A w \in WorkerIds :
         SendBroadcastStep(w) =>
            \A i \in 1 .. Len(deliveries) :
               (deliveries'[i].delivered /\ ~deliveries[i].delivered) =>
                  \E x \in handed' :
                     /\ x.userId = deliveries[i].user_id
                     /\ x.msg.id = deliveries[i].message_id
                     /\ x.path = "broadcast"]_vars


\* ------------------------------------------------------------------
\* The composer of the chat page: sendMessage of useMessages and
\* handleSend of ChatPage
\* ------------------------------------------------------------------

\* what the user of the tab sends, and the id the server gives it
Outgoing == [id |-> 4, content |-> "mine", createdAt |-> 104]

\* the message as a poll fetch hands it to its own sender: its AES key
\* wrapped with the sender's public key
OwnWire ==
    LET e == EncryptMessageForRecipients(Outgoing.content,
                                         Recipients(<<ChatUser.userId>>),
                                         <<0, 0, 0, 10>>, <<0, 1>>)
    IN  [id |-> Outgoing.id, senderId |-> ChatUser.userId,
         senderUsername |-> ChatUser.username,
         encryptedContent |-> e.encryptedContent, iv |-> e.iv,
         encryptedKey |-> e.keys[1].encryptedKey,
         createdAt |-> Outgoing.createdAt]

\* the updater sendMessage gives to setMessages
AppendOwn(prev, result, content) ==
    Append(prev, [id |-> result.id, senderId |-> ChatUser.userId,
                  senderUsername |-> ChatUser.username, content |-> content,
                  createdAt |-> result.createdAt])

\* the finally block of sendMessage
SendFinally == sending' = IF mount = "yes" THEN FALSE ELSE sending

\* handleSend on a rendered composer (the page shows a spinner while
\* loading) with a non-blank text: sendMessage starts
HandleSend ==
    /\ mount = "yes"
    /\ ~loading
    /\ ~sending
    /\ sendPc = "idle"
    /\ sending' = TRUE
    /\ sendPc' = "keys"
    /\ UNCHANGED <<poller, session, chat>>

\* getAllPublicKeys() resolved: the text is encrypted and posted
SendKeysLoaded ==
    /\ sendPc = "keys"
    /\ sendPc' = "posted"
    /\ UNCHANGED <<sending, poller, session, chat>>

\* getAllPublicKeys() or sendMessageApi() rejected
SendRejected ==
    /\ sendPc \in {"keys", "posted"}
    /\ sendPc' = "failed"
    /\ SendFinally
    /\ UNCHANGED <<poller, session, chat>>

\* sendMessageApi() resolved with the 201 body
SendResolved ==
    /\ sendPc = "posted"
    /\ sendPc' = "done"
    /\ rendered' = IF mount = "yes"
                   THEN AppendOwn(rendered, Outgoing, Outgoing.content)
                   ELSE rendered
    /\ SendFinally
    /\ UNCHANGED <<loading, loadError, initPc, batches, poller, session>>

\* the poll lists of a clustered server that hand the message to its own
\* sender: the fetch ran on another process between the insert of the
\* sender's row and its mark
OwnPollLists == {<<OwnWire>>, <<Wire(3, 1), OwnWire>>}

\* a poll answered with the tab's own message, which the server has by then
OwnPollResolved(l, list) ==
    /\ sendPc \in {"posted", "done"}
    /\ ChatPollResolved(l, list)
    /\ UNCHANGED composer

\* a step of the composer
InComposer(A) ==
    A /\ UNCHANGED server /\ UNCHANGED io /\ UNCHANGED crypt
      /\ UNCHANGED form

\* the chat page with its composer, on a connection whose polls are all
\* answered
ComposerNext ==
    \/ \E store \in ChatStores : InChat(ChatOpen(store))
    \/ InChat(ChatMount)
    \/ InChat(KeysLoaded)
    \/ InChat(FetchFailed)
    \/ \E list \in HistoryPages : InChat(HistoryLoaded(list))
    \/ \E b \in 1 .. MaxBatches : InChat(DecryptStep(b))
    \/ \E l \in 1 .. MaxLoops, list \in ChatPollLists :
          InChat(ChatPollResolved(l, list))
    \/ InHook(Unmount)
    \/ InComposer(HandleSend)
    \/ InComposer(SendKeysLoaded)
    \/ InComposer(SendRejected)
    \/ InComposer(SendResolved)
    \/ \E l \in 1 .. MaxLoops, list \in OwnPollLists :
          InComposer(OwnPollResolved(l, list))

ComposerSpec == ChatInit /\ [][ComposerNext]_vars

\* ---------------------------------------------------------------- C39
\* C39: the rendered list never holds two entries with the same message
\* id, whatever the order of the history load, the poll batches and the
\* append of the user's own message from the send response.
C39_RenderedIdsAreUnique ==
    \A i, j \in DOMAIN rendered :
        i # j => rendered[i].id # rendered[j].id

\* no poll list has handed the tab its own message
OwnNeverPolled ==
    \A b \in DOMAIN batches : Outgoing.id \notin IdsOf(batches[b].input)

\* the same statement for the runs in which the server hands no message to
\* its own sender
RenderedIdsAreUnique_OwnNeverPolled ==
    OwnNeverPolled => C39_RenderedIdsAreUnique

\* a poll fetch handed a message to its own sender and the send succeeded
OwnMessagePolledAndSent ==
    \E e \in handed :
        /\ e.path = "poll"
        /\ e.msg.senderId = e.userId
        /\ Sent(e.msg.id)

\* the own message is rendered after a history load and a poll batch
OwnMessageRendered ==
    /\ sendPc = "done"
    /\ Len(rendered) >= 3
    /\ rendered[Len(rendered)].id = Outgoing.id

====
